---------------------------- MODULE Spec2Model ----------------------------
(***************************************************************************)
(* A model of the markov-algorithms crate: the scheme builder, the         *)
(* substitution formulas stored as ranges into one shared buffer, and the  *)
(* three ways of applying a built scheme to a word (apply, apply_once and  *)
(* the application iterator).                                              *)
(*                                                                         *)
(* Characters are one-character strings and every Rust string (a word, a   *)
(* definition line, the store) is a sequence of characters.  Rust ranges   *)
(* are half open and start at 0; they are kept that way, as records        *)
(* [start, end], and Slice turns one into the characters it covers.        *)
(* Offsets count characters: every offset the code computes is a character *)
(* boundary of the store.                                                  *)
(***************************************************************************)
EXTENDS Integers, Sequences, FiniteSets, TLC

VARIABLES scheme, word, full, singles, iterator, yields, panicked,
          scheme_builder, build, creation, callers, returned,
          counting, document,
          input_handler, channel, threads, terminal, calling

vars == <<scheme, word, full, singles, iterator, yields, panicked,
          scheme_builder, build, creation, callers, returned,
          counting, document,
          input_handler, channel, threads, terminal, calling>>

\* the callers that share one scheme, and the call that returned last
sharing_vars == <<callers, returned>>

\* a full application that is counted step by step, and the call of the
\* whole-document constructor
counting_vars == <<counting, document>>

\* the handler of the user's input, its channel, the threads that read
\* stdin, the terminal and the thread that calls should_continue
input_vars == <<input_handler, channel, threads, terminal, calling>>

\* no handler of the user's input is set up
NoInput ==
    /\ input_handler = <<>>
    /\ channel = <<>>
    /\ threads = <<>>
    /\ terminal = <<>>
    /\ calling = <<>>

(***************************************************************************)
(* Bounds of the model.                                                    *)
(***************************************************************************)
\* the longest store (the definition lines of a scheme, concatenated)
MaxStore == 4
\* the longest input word a caller passes in
MaxWordLen == 2
\* the longest text of definition lines given to a builder, every line
\* counted with its line break
MaxDefinitionText == 4
\* the longest string an alphabet is parsed from, and the most characters
\* an alphabet is extended with
MaxCharacters == 3
\* the largest steps_limit passed to apply, and the longest chain of
\* apply_once calls a caller makes
MaxLimit == 3

(***************************************************************************)
(* Option and Result values.                                               *)
(***************************************************************************)
None == [some |-> FALSE, value |-> <<>>]
Some(v) == [some |-> TRUE, value |-> v]
Ok(v) == [ok |-> TRUE, value |-> v]
Err(e) == [ok |-> FALSE, value |-> e]

(***************************************************************************)
(* The string operations of the standard library the code relies on.       *)
(***************************************************************************)
Slice(s, range) == SubSeq(s, range.start + 1, range.end)

\* does pattern start at (0-based) offset i of s
MatchesAt(s, pattern, i) ==
    /\ i + Len(pattern) <= Len(s)
    /\ SubSeq(s, i + 1, i + Len(pattern)) = pattern

\* a contains that looks for the pattern at the characters of s only, and
\* so finds no empty pattern in the empty string
str_contains_at_a_character(s, pattern) ==
    \E i \in 0..(Len(s) - 1) : MatchesAt(s, pattern, i)

\* str::contains(&str)
str_contains(s, pattern) == \E i \in 0..Len(s) : MatchesAt(s, pattern, i)

\* str::contains(char)
str_contains_char(s, c) == \E i \in 1..Len(s) : s[i] = c

RECURSIVE FindFrom(_, _, _)
FindFrom(s, pattern, i) ==
    IF i > Len(s) THEN None
    ELSE IF MatchesAt(s, pattern, i) THEN Some(i)
    ELSE FindFrom(s, pattern, i + 1)

\* str::find: the offset of the first match, scanning from the left
str_find(s, pattern) == FindFrom(s, pattern, 0)

RECURSIVE RFindFrom(_, _, _)
RFindFrom(s, pattern, i) ==
    IF i < 0 THEN None
    ELSE IF MatchesAt(s, pattern, i) THEN Some(i)
    ELSE RFindFrom(s, pattern, i - 1)

\* str::rfind: the offset of the last match, scanning from the right
str_rfind(s, pattern) == RFindFrom(s, pattern, Len(s))

RECURSIVE str_split(_, _)
\* the pieces of s, given the first match of the separator in it
SplitAtMatch(s, separator, found) ==
    IF ~found.some THEN <<s>>
    ELSE <<SubSeq(s, 1, found.value)>>
         \o str_split(SubSeq(s, found.value + Len(separator) + 1, Len(s)),
                      separator)

\* str::split with a non-empty separator: the pieces between the matches
str_split(s, separator) == SplitAtMatch(s, separator, str_find(s, separator))

\* s with the match found in it, if any, replaced
ReplaceMatch(s, from, to, found) ==
    IF ~found.some THEN s
    ELSE SubSeq(s, 1, found.value) \o to
         \o SubSeq(s, found.value + Len(from) + 1, Len(s))

\* a replacen that replaces the last match instead of the first
str_replacen_last(s, from, to) == ReplaceMatch(s, from, to, str_rfind(s, from))

\* str::replacen(from, to, 1): the first match is replaced
str_replacen(s, from, to) == ReplaceMatch(s, from, to, str_find(s, from))

\* str::match_indices(char).count()
match_count(s, c) == Cardinality({i \in 1..Len(s) : s[i] = c})

(***************************************************************************)
(* Alphabet                                                                *)
(***************************************************************************)
contains(alphabet, character) == character \in alphabet.main

contains_extended(alphabet, character) ==
    character \in alphabet.main \/ character \in alphabet.extension

\* extend that looks for the character in the main set only
extend_checking_main_only(alphabet, character) ==
    IF contains(alphabet, character)
    THEN Err([kind |-> "ExtendedWithADuplicate"])
    ELSE Ok([main |-> alphabet.main,
             extension |-> alphabet.extension \cup {character}])

\* Alphabet::extend
extend(alphabet, character) ==
    IF contains_extended(alphabet, character)
    THEN Err([kind |-> "ExtendedWithADuplicate"])
    ELSE Ok([main |-> alphabet.main,
             extension |-> alphabet.extension \cup {character}])

RECURSIVE InsertCharacters(_, _, _, _)
\* the loop of from_str that reports a repeated character once only
InsertCharacters_once(characters, i, store, duplicates) ==
    IF i > Len(characters)
    THEN [store |-> store, duplicates |-> duplicates]
    ELSE IF characters[i] \in store
    THEN InsertCharacters(characters, i + 1, store,
                          IF str_contains_char(duplicates, characters[i])
                          THEN duplicates
                          ELSE Append(duplicates, characters[i]))
    ELSE InsertCharacters(characters, i + 1, store \cup {characters[i]},
                          duplicates)

\* the loop of from_str over characters, from the i-th on: store is the
\* HashSet and duplicates the Vec (empty while the Option is None)
InsertCharacters(characters, i, store, duplicates) ==
    IF i > Len(characters)
    THEN [store |-> store, duplicates |-> duplicates]
    ELSE IF characters[i] \in store
    THEN InsertCharacters(characters, i + 1, store,
                          Append(duplicates, characters[i]))
    ELSE InsertCharacters(characters, i + 1, store \cup {characters[i]},
                          duplicates)

\* from_str that fills the extension set instead of the main set
from_str_into_extension(characters) ==
    LET Inserted(inserted) ==
            IF inserted.duplicates /= <<>>
            THEN Err([kind |-> "DuplicatedCharacterEncountered",
                      duplicates |-> inserted.duplicates,
                      alphabet_definition |-> characters])
            ELSE Ok([main |-> {}, extension |-> inserted.store])
    IN  Inserted(InsertCharacters(characters, 1, {}, <<>>))

\* <Alphabet as FromStr>::from_str
from_str(characters) ==
    LET Inserted(inserted) ==
            IF inserted.duplicates /= <<>>
            THEN Err([kind |-> "DuplicatedCharacterEncountered",
                      duplicates |-> inserted.duplicates,
                      alphabet_definition |-> characters])
            ELSE Ok([main |-> inserted.store, extension |-> {}])
    IN  Inserted(InsertCharacters(characters, 1, {}, <<>>))

\* <Alphabet as TryFrom<&str>>::try_from
try_from_str(characters) == from_str(characters)

\* <Alphabet as TryFrom<&HashSet<char, S>>>::try_from
try_from(other) ==
    IF other = {} THEN Err([kind |-> "NoCharacters"])
    ELSE Ok([main |-> other, extension |-> {}])


(***************************************************************************)
(* SchemeProperties and the checks of a definition line                    *)
(***************************************************************************)
\* PropertyAssertions::assert_definition_conforms_to_properties
assert_definition_conforms_to_properties(properties, formula_definition) ==
    LET Invalid(character) ==
            /\ ~contains_extended(properties.alphabet, character)
            /\ character /= properties.delimiter
            /\ character /= properties.final_marker
        invalid_characters == SelectSeq(formula_definition, Invalid)
    IN  IF invalid_characters = <<>> THEN Ok(<<>>)
        ELSE Err([kind |-> "UnknownCharactersEncountered",
                  characters |-> invalid_characters])

\* assert_all_properties_are_valid that looks at the alphabet before it
\* compares the delimiter with the final marker
assert_all_properties_are_valid_alphabet_first(properties) ==
    IF contains(properties.alphabet, properties.delimiter)
    THEN Err([kind |-> "DelimiterBelongsToTheAlphabet",
              character |-> properties.delimiter])
    ELSE IF contains(properties.alphabet, properties.final_marker)
    THEN Err([kind |-> "FinalMarkerBelongsToTheAlphabet",
              character |-> properties.final_marker])
    ELSE IF properties.delimiter = properties.final_marker
    THEN Err([kind |-> "DelimiterAndFinalMarkerAreTheSame",
              character |-> properties.delimiter])
    ELSE Ok(<<>>)

\* assert_all_properties_are_valid that looks the two characters up in the
\* extended alphabet
assert_all_properties_are_valid_extended(properties) ==
    IF properties.delimiter = properties.final_marker
    THEN Err([kind |-> "DelimiterAndFinalMarkerAreTheSame",
              character |-> properties.delimiter])
    ELSE IF contains_extended(properties.alphabet, properties.delimiter)
    THEN Err([kind |-> "DelimiterBelongsToTheAlphabet",
              character |-> properties.delimiter])
    ELSE IF contains_extended(properties.alphabet, properties.final_marker)
    THEN Err([kind |-> "FinalMarkerBelongsToTheAlphabet",
              character |-> properties.final_marker])
    ELSE Ok(<<>>)

\* PropertyAssertions::assert_all_properties_are_valid
assert_all_properties_are_valid(properties) ==
    IF properties.delimiter = properties.final_marker
    THEN Err([kind |-> "DelimiterAndFinalMarkerAreTheSame",
              character |-> properties.delimiter])
    ELSE IF contains(properties.alphabet, properties.delimiter)
    THEN Err([kind |-> "DelimiterBelongsToTheAlphabet",
              character |-> properties.delimiter])
    ELSE IF contains(properties.alphabet, properties.final_marker)
    THEN Err([kind |-> "FinalMarkerBelongsToTheAlphabet",
              character |-> properties.final_marker])
    ELSE Ok(<<>>)

\* assert_single_simple_delimiter that does not count a delimiter followed
\* by the final marker
assert_single_simple_delimiter_skipping_pairs(properties, formula_definition) ==
    LET n == Cardinality({i \in 1..Len(formula_definition) :
                 /\ formula_definition[i] = properties.delimiter
                 /\ ~(i < Len(formula_definition)
                        /\ formula_definition[i + 1] = properties.final_marker)})
    IN  IF n = 0
        THEN Err([kind |-> "NoDelimiterFound",
                  definition |-> formula_definition, count |-> 0])
        ELSE IF n = 1 THEN Ok(<<>>)
        ELSE Err([kind |-> "MultipleDelimitersFound",
                  definition |-> formula_definition, count |-> n])

\* FormulaAssertions::assert_single_simple_delimiter
assert_single_simple_delimiter(properties, formula_definition) ==
    LET n == match_count(formula_definition, properties.delimiter)
    IN  IF n = 0
        THEN Err([kind |-> "NoDelimiterFound",
                  definition |-> formula_definition, count |-> 0])
        ELSE IF n = 1 THEN Ok(<<>>)
        ELSE Err([kind |-> "MultipleDelimitersFound",
                  definition |-> formula_definition, count |-> n])

\* assert_no_more_final_markers that looks at the left text only
assert_no_more_final_markers_on_the_left(properties, formula_definition, left, right) ==
    IF str_contains_char(left, properties.final_marker)
    THEN Err([kind |-> "FinalMarkerOnTheLeft",
              definition |-> formula_definition, count |-> 0])
    ELSE Ok(<<>>)

\* FormulaAssertions::assert_no_more_final_markers
assert_no_more_final_markers(properties, formula_definition, left, right) ==
    IF str_contains_char(left, properties.final_marker)
    THEN Err([kind |-> "FinalMarkerOnTheLeft",
              definition |-> formula_definition, count |-> 0])
    ELSE IF str_contains_char(right, properties.final_marker)
    THEN Err([kind |-> "FinalMarkerOnTheRight",
              definition |-> formula_definition, count |-> 0])
    ELSE Ok(<<>>)

\* parse that looks for the first match of the right text, not the last
parse_first_right_match(properties, formula_definition) ==
    LET final_delimiter == <<properties.delimiter, properties.final_marker>>
        Result(is_final, splitted) ==
            [is_final |-> is_final,
             left_end |-> Len(splitted[1]),
             right_start |-> str_find(formula_definition, splitted[2]).value]
        Splitted(is_final) ==
            Result(is_final,
                   IF is_final
                   THEN str_split(formula_definition, final_delimiter)
                   ELSE str_split(formula_definition, <<properties.delimiter>>))
    IN  Splitted(str_contains(formula_definition, final_delimiter))

\* FormulaParser::parse; called only on a definition with one delimiter
parse(properties, formula_definition) ==
    LET final_delimiter == <<properties.delimiter, properties.final_marker>>
        Result(is_final, splitted) ==
            [is_final |-> is_final,
             left_end |-> Len(splitted[1]),
             right_start |-> str_rfind(formula_definition, splitted[2]).value]
        Splitted(is_final) ==
            Result(is_final,
                   IF is_final
                   THEN str_split(formula_definition, final_delimiter)
                   ELSE str_split(formula_definition, <<properties.delimiter>>))
    IN  Splitted(str_contains(formula_definition, final_delimiter))

(***************************************************************************)
(* FormulaView: the two ranges of a formula in the store                   *)
(***************************************************************************)
\* FormulaView::new that takes the offsets in the line for offsets in the
\* store
FormulaView_new_without_start(range, left_end, right_start) ==
    [left |-> [start |-> 0, end |-> left_end],
     right |-> [start |-> right_start, end |-> range.end]]

\* FormulaView::new
FormulaView_new(range, left_end, right_start) ==
    [left |-> [start |-> range.start, end |-> range.start + left_end],
     right |-> [start |-> range.start + right_start, end |-> range.end]]

get_left(view, store) == Slice(store, view.left)

get_right(view, store) == Slice(store, view.right)

peek_definition(view, store) ==
    Slice(store, [start |-> view.left.start, end |-> view.right.end])

(***************************************************************************)
(* SubstitutionFormula                                                     *)
(***************************************************************************)
\* SubstitutionFormula::new
SubstitutionFormula_new(properties, store, range) ==
    LET formula_definition == Slice(store, range)
        Marked(view, is_final, markers) ==
            IF markers.ok THEN Ok([view |-> view, is_final |-> is_final])
            ELSE markers
        Viewed(view, is_final) ==
            Marked(view, is_final,
                   assert_no_more_final_markers(
                       properties, formula_definition,
                       get_left(view, store), get_right(view, store)))
        Parsed(result) ==
            Viewed(FormulaView_new(range, result.left_end, result.right_start),
                   result.is_final)
        Delimited(single) ==
            IF single.ok THEN Parsed(parse(properties, formula_definition))
            ELSE single
    IN  Delimited(assert_single_simple_delimiter(properties, formula_definition))

\* the outcome of applying one formula: whether it matched, and if so the
\* new word and Final or Intermediate
NotApplied == [applied |-> FALSE, tag |-> "None", word |-> <<>>]
Applied(tag, w) == [applied |-> TRUE, tag |-> tag, word |-> w]

\* SubstitutionFormula::apply that forgets the finality of the formula
SubstitutionFormula_apply_never_final(formula, store, w) ==
    LET left == get_left(formula.view, store)
        right == get_right(formula.view, store)
    IN  IF str_contains(w, left)
        THEN Applied("Intermediate", str_replacen(w, left, right))
        ELSE NotApplied

\* SubstitutionFormula::apply
SubstitutionFormula_apply(formula, store, w) ==
    LET left == get_left(formula.view, store)
        right == get_right(formula.view, store)
        Substituted(substitution_result) ==
            IF formula.is_final
            THEN Applied("Final", substitution_result)
            ELSE Applied("Intermediate", substitution_result)
    IN  IF str_contains(w, left)
        THEN Substituted(str_replacen(w, left, right))
        ELSE NotApplied

(***************************************************************************)
(* AlgorithmSchemeBuilder                                                  *)
(***************************************************************************)
\* SubstitutionFormulaCollectionBuilder::try_add_formula on the collection
\* builder [store, substitution_formulas]
try_add_formula(properties, builder, formula_definition) ==
    LET Created(store, formula) ==
            IF formula.ok
            THEN Ok([store |-> store,
                     substitution_formulas |->
                         Append(builder.substitution_formulas, formula.value)])
            ELSE Err([kind |-> "FormulaCreationError", source |-> formula.value])
        Pushed(store) ==
            Created(store,
                    SubstitutionFormula_new(
                        properties, store,
                        [start |-> Len(builder.store), end |-> Len(store)]))
    IN  Pushed(builder.store \o formula_definition)

RECURSIVE AddDefinitions(_, _, _)
\* the loop over the definition lines that parses a line before it checks
\* its characters
AddDefinitions_parsing_first(properties, builder, formula_definitions) ==
    LET formula_definition == Head(formula_definitions)
        Conforming(added, conforms) ==
            IF conforms.ok
            THEN AddDefinitions(properties, added.value, Tail(formula_definitions))
            ELSE conforms
        Added(added) ==
            IF added.ok
            THEN Conforming(added,
                            assert_definition_conforms_to_properties(
                                properties, formula_definition))
            ELSE added
    IN  IF formula_definitions = <<>> THEN Ok(builder)
        ELSE Added(try_add_formula(properties, builder, formula_definition))

\* the loop over the definition lines in build_with_formula_definitions
AddDefinitions(properties, builder, formula_definitions) ==
    LET formula_definition == Head(formula_definitions)
        Added(added) ==
            IF added.ok
            THEN AddDefinitions(properties, added.value, Tail(formula_definitions))
            ELSE added
        Conforming(conforms) ==
            IF conforms.ok
            THEN Added(try_add_formula(properties, builder, formula_definition))
            ELSE conforms
    IN  IF formula_definitions = <<>> THEN Ok(builder)
        ELSE Conforming(assert_definition_conforms_to_properties(
                            properties, formula_definition))

\* AlgorithmSchemeBuilder::build_with_formula_definitions, on the finalized
\* properties
build_with_formula_definitions(properties, formula_definitions) ==
    LET Collected(collection) ==
            IF collection.ok
            THEN Ok([properties |-> properties,
                     store |-> collection.value.store,
                     substitution_formulas |->
                         collection.value.substitution_formulas])
            ELSE collection
        Valid(valid) ==
            IF valid.ok
            THEN Collected(AddDefinitions(
                               properties,
                               [store |-> <<>>, substitution_formulas |-> <<>>],
                               formula_definitions))
            ELSE valid
    IN  Valid(assert_all_properties_are_valid(properties))

\* AlgorithmSchemeBuilder::DEFAULT_DELIMITER and DEFAULT_FINAL_MARKER
DEFAULT_DELIMITER == "→"
DEFAULT_FINAL_MARKER == "⋅"

\* AlgorithmSchemeBuilder::new
AlgorithmSchemeBuilder_new ==
    [alphabet |-> None, delimiter |-> None, final_marker |-> None]

\* AlgorithmSchemeBuilder::with_delimiter
with_delimiter(self, delimiter) == [self EXCEPT !.delimiter = Some(delimiter)]

\* AlgorithmSchemeBuilder::with_final_marker
with_final_marker(self, final_marker) ==
    [self EXCEPT !.final_marker = Some(final_marker)]

\* AlgorithmSchemeBuilder::with_alphabet
with_alphabet(self, alphabet) == [self EXCEPT !.alphabet = Some(alphabet)]

\* AlgorithmSchemeBuilder::create_default_alphabet: 'a'..='z', 'A'..='Z' and
\* '0'..='9'
create_default_alphabet ==
    try_from({"a", "b", "c", "d", "e", "f", "g", "h", "i", "j", "k", "l",
              "m", "n", "o", "p", "q", "r", "s", "t", "u", "v", "w", "x",
              "y", "z",
              "A", "B", "C", "D", "E", "F", "G", "H", "I", "J", "K", "L",
              "M", "N", "O", "P", "Q", "R", "S", "T", "U", "V", "W", "X",
              "Y", "Z",
              "0", "1", "2", "3", "4", "5", "6", "7", "8", "9"}).value

\* Option::unwrap_or
unwrap_or(option, default) == IF option.some THEN option.value ELSE default

\* AlgorithmSchemeBuilder::finalize_properties
finalize_properties(self) ==
    [delimiter |-> unwrap_or(self.delimiter, DEFAULT_DELIMITER),
     final_marker |-> unwrap_or(self.final_marker, DEFAULT_FINAL_MARKER),
     alphabet |-> unwrap_or(self.alphabet, create_default_alphabet)]

(***************************************************************************)
(* AlgorithmScheme                                                         *)
(***************************************************************************)
\* SingleApplicationResult::Final(data) and ::Intermediate(data), with
\* data a SingleApplicationData
SingleApplicationResult(tag, w, applied_formula_definition) ==
    [tag |-> tag,
     data |-> [word |-> w,
               applied_formula_definition |-> applied_formula_definition]]

RECURSIVE ScanFormulas(_, _, _)
\* the match on the result of formula.apply in the loop of apply_once_unsafe
AfterFormula(self, w, formula_index, result) ==
    IF result.applied
    THEN SingleApplicationResult(
             result.tag, result.word,
             Some(peek_definition(self.substitution_formulas[formula_index].view,
                                  self.store)))
    ELSE ScanFormulas(self, w, formula_index + 1)

\* the loop of apply_once_unsafe that ends Intermediate when no formula
\* matches
ScanFormulas_unmatched_intermediate(self, w, formula_index) ==
    IF formula_index > Len(self.substitution_formulas)
    THEN SingleApplicationResult("Intermediate", w, None)
    ELSE AfterFormula(self, w, formula_index,
                      SubstitutionFormula_apply(
                          self.substitution_formulas[formula_index],
                          self.store, w))

\* the loop of apply_once_unsafe, from the formula at formula_index on
ScanFormulas(self, w, formula_index) ==
    IF formula_index > Len(self.substitution_formulas)
    THEN SingleApplicationResult("Final", w, None)
    ELSE AfterFormula(self, w, formula_index,
                      SubstitutionFormula_apply(
                          self.substitution_formulas[formula_index],
                          self.store, w))

\* AlgorithmScheme::apply_once_unsafe
apply_once_unsafe(self, w) == ScanFormulas(self, w, 1)

\* assert_valid_word that reports only the first unknown character
assert_valid_word_first_unknown(self, w) ==
    LET Unknown(character) ==
            ~contains_extended(self.properties.alphabet, character)
        Extension(character) ==
            /\ contains_extended(self.properties.alphabet, character)
            /\ ~contains(self.properties.alphabet, character)
        unknown == SelectSeq(w, Unknown)
        extension == SelectSeq(w, Extension)
    IN  IF unknown /= <<>>
        THEN Err([kind |-> "UnknownCharactersEncountered",
                  characters |-> <<Head(unknown)>>])
        ELSE IF extension /= <<>>
        THEN Err([kind |-> "ExtensionCharactersEncountered",
                  characters |-> extension])
        ELSE Ok(<<>>)

\* assert_valid_word that lets extension characters through
assert_valid_word_without_extension_check(self, w) ==
    LET Unknown(character) ==
            ~contains_extended(self.properties.alphabet, character)
        unknown == SelectSeq(w, Unknown)
    IN  IF unknown /= <<>>
        THEN Err([kind |-> "UnknownCharactersEncountered",
                  characters |-> unknown])
        ELSE Ok(<<>>)

\* AlgorithmScheme::assert_valid_word
assert_valid_word(self, w) ==
    LET Unknown(character) ==
            ~contains_extended(self.properties.alphabet, character)
        Extension(character) ==
            /\ contains_extended(self.properties.alphabet, character)
            /\ ~contains(self.properties.alphabet, character)
        unknown == SelectSeq(w, Unknown)
        extension == SelectSeq(w, Extension)
    IN  IF unknown /= <<>>
        THEN Err([kind |-> "UnknownCharactersEncountered",
                  characters |-> unknown])
        ELSE IF extension /= <<>>
        THEN Err([kind |-> "ExtensionCharactersEncountered",
                  characters |-> extension])
        ELSE Ok(<<>>)

\* AlgorithmScheme::assert_non_zero_limit
assert_non_zero_limit(steps_limit) ==
    IF steps_limit = 0
    THEN Err([kind |-> "ZeroStepsLimit"])
    ELSE Ok(<<>>)

\* apply_once that does not validate its word
apply_once_unvalidated(self, w) == Ok(apply_once_unsafe(self, w))

\* AlgorithmScheme::apply_once
apply_once(self, w) ==
    LET Valid(valid) ==
            IF valid.ok THEN Ok(apply_once_unsafe(self, w)) ELSE valid
    IN  Valid(assert_valid_word(self, w))

RECURSIVE ApplyLoop(_, _, _, _)
\* the match on the result of a step in the while loop of apply, steps_done
\* already incremented
AfterStep(self, result, steps_done, steps_limit) ==
    IF result.tag = "Final"
    THEN Ok([word |-> result.data.word, steps_done |-> steps_done])
    ELSE ApplyLoop(self, result.data.word, steps_done, steps_limit)

\* the while loop of apply with the bound test off by one
ApplyLoop_inclusive(self, w, steps_done, steps_limit) ==
    IF ~(steps_done <= steps_limit)
    THEN Err([kind |-> "HitTheStepsLimit", steps |-> steps_done])
    ELSE AfterStep(self, apply_once_unsafe(self, w), steps_done + 1,
                   steps_limit)

\* the while loop of apply
ApplyLoop(self, w, steps_done, steps_limit) ==
    IF ~(steps_done < steps_limit)
    THEN Err([kind |-> "HitTheStepsLimit", steps |-> steps_done])
    ELSE AfterStep(self, apply_once_unsafe(self, w), steps_done + 1,
                   steps_limit)

\* apply that validates the word before it looks at the limit
apply_validating_first(self, w, steps_limit) ==
    LET NonZero(non_zero) ==
            IF non_zero.ok THEN ApplyLoop(self, w, 0, steps_limit) ELSE non_zero
        Valid(valid) ==
            IF valid.ok THEN NonZero(assert_non_zero_limit(steps_limit))
            ELSE Err([kind |-> "InputValidationError", source |-> valid.value])
    IN  Valid(assert_valid_word(self, w))

\* AlgorithmScheme::apply
apply(self, w, steps_limit) ==
    LET Valid(valid) ==
            IF valid.ok THEN ApplyLoop(self, w, 0, steps_limit)
            ELSE Err([kind |-> "InputValidationError", source |-> valid.value])
        NonZero(non_zero) ==
            IF non_zero.ok THEN Valid(assert_valid_word(self, w)) ELSE non_zero
    IN  NonZero(assert_non_zero_limit(steps_limit))

(***************************************************************************)
(* The step counter of a full application, at its width.  steps_limit and  *)
(* steps_done are u32; a u32 is kept as its two 16-bit halves.             *)
(***************************************************************************)
u16_RANGE == 65536

u32(hi, lo) == [hi |-> hi, lo |-> lo]

u32_MAX == u32(u16_RANGE - 1, u16_RANGE - 1)

\* a < b on u32
u32_lt(a, b) == a.hi < b.hi \/ (a.hi = b.hi /\ a.lo < b.lo)

\* a + 1 at the width of u32, which wraps to 0 after u32::MAX
u32_wrapping_add_1(a) ==
    IF a.lo < u16_RANGE - 1 THEN u32(a.hi, a.lo + 1)
    ELSE IF a.hi < u16_RANGE - 1 THEN u32(a.hi + 1, 0)
    ELSE u32(0, 0)

\* u32::checked_add(a, 1)
u32_checked_add_1(a) ==
    IF a = u32_MAX THEN None ELSE Some(u32_wrapping_add_1(a))

\* a full application in progress: the build profile (overflow checks on
\* or off), the limit, the counter, the current word, where the call is
\* ("called", "loop", "returned", "panicked"), what it returned, and
\* whether an addition on the counter has wrapped
Run(of, overflow_checks, steps_limit, steps_done, w, at, result) ==
    [of |-> of, overflow_checks |-> overflow_checks,
     steps_limit |-> steps_limit, steps_done |-> steps_done, word |-> w,
     at |-> at, result |-> result, wrapped |-> FALSE]

\* the start of AlgorithmScheme::apply: the two assertions and the
\* initialisation of word and steps_done
apply_called(self, run) ==
    IF run.steps_limit = u32(0, 0)
    THEN [run EXCEPT !.at = "returned",
                     !.result = Err([kind |-> "ZeroStepsLimit"])]
    ELSE LET Valid(valid) ==
                 IF valid.ok
                 THEN [run EXCEPT !.at = "loop", !.steps_done = u32(0, 0)]
                 ELSE [run EXCEPT
                           !.at = "returned",
                           !.result = Err([kind |-> "InputValidationError",
                                           source |-> valid.value])]
         IN  Valid(assert_valid_word(self, run.word))

\* steps_done += 1 and the match on the result of the step; with overflow
\* checks the addition panics on u32::MAX, without them it wraps
apply_counted(run, result) ==
    IF run.steps_done = u32_MAX /\ run.overflow_checks
    THEN [run EXCEPT !.at = "panicked"]
    ELSE IF result.tag = "Final"
    THEN [run EXCEPT
              !.steps_done = u32_wrapping_add_1(run.steps_done),
              !.wrapped = (run.steps_done = u32_MAX),
              !.at = "returned",
              !.result = Ok([word |-> result.data.word,
                             steps_done |->
                                 u32_wrapping_add_1(run.steps_done)])]
    ELSE [run EXCEPT !.steps_done = u32_wrapping_add_1(run.steps_done),
                     !.wrapped = (run.steps_done = u32_MAX),
                     !.word = result.data.word]

\* a pass of the while loop of apply with the bound test off by one
apply_iteration_inclusive(self, run) ==
    IF ~(u32_lt(run.steps_done, run.steps_limit)
             \/ run.steps_done = run.steps_limit)
    THEN [run EXCEPT !.at = "returned",
                     !.result = Err([kind |-> "HitTheStepsLimit",
                                     steps |-> run.steps_done])]
    ELSE apply_counted(run, apply_once_unsafe(self, run.word))

\* a pass of the while loop of AlgorithmScheme::apply, or its exit
apply_iteration(self, run) ==
    IF ~u32_lt(run.steps_done, run.steps_limit)
    THEN [run EXCEPT !.at = "returned",
                     !.result = Err([kind |-> "HitTheStepsLimit",
                                     steps |-> run.steps_done])]
    ELSE apply_counted(run, apply_once_unsafe(self, run.word))

(***************************************************************************)
(* The whole-document constructor: AlgorithmScheme::new(configuration,     *)
(* definition) reads one formula a line of the definition, with the        *)
(* formulas of scheme/formulas.rs, and its apply counts with a Limitter.   *)
(***************************************************************************)
\* SubstitutionFormulaConfiguration::over_alphabet
over_alphabet(delimiter, final_marker, extended_alphabet) ==
    IF delimiter \in extended_alphabet
    THEN Err([kind |-> "DelimiterIsPartOfTheAlphabet"])
    ELSE IF final_marker \in extended_alphabet
    THEN Err([kind |-> "FinalMarkerIsPartOfTheAlphabet"])
    ELSE Ok([delimiter |-> delimiter,
             final_marker |-> final_marker,
             final_delimiter |-> <<delimiter, final_marker>>,
             extended_alphabet |-> extended_alphabet])

\* str::lines on a text without carriage returns: the pieces between the
\* line feeds, without the empty piece after a last line feed
lines(definition) ==
    LET Terminated(pieces) ==
            IF pieces[Len(pieces)] = <<>>
            THEN SubSeq(pieces, 1, Len(pieces) - 1)
            ELSE pieces
    IN  Terminated(str_split(definition, <<"\n">>))

\* FormulaAssertions::assert_alphabet_usage of scheme/formulas.rs
formulas_assert_alphabet_usage(configuration, formula_definition) ==
    LET Unsupported(character) ==
            /\ character \notin configuration.extended_alphabet
            /\ character /= configuration.delimiter
            /\ character /= configuration.final_marker
        Found(unsupported) ==
            IF unsupported /= <<>>
            THEN Err([kind |-> "UnknownCharacterEncountered",
                      definition |-> formula_definition,
                      character |-> unsupported[1]])
            ELSE Ok(<<>>)
    IN  Found(SelectSeq(formula_definition, Unsupported))

\* FormulaAssertions::assert_single_simple_delimiter of scheme/formulas.rs
formulas_assert_single_simple_delimiter(configuration, formula_definition) ==
    LET Counted(n) ==
            IF n = 0
            THEN Err([kind |-> "NoDelimiterFound",
                      definition |-> formula_definition])
            ELSE IF n = 1 THEN Ok(<<>>)
            ELSE Err([kind |-> "MultipleDelimitersFound",
                      definition |-> formula_definition, count |-> n])
    IN  Counted(match_count(formula_definition, configuration.delimiter))

\* FormulaParser::parse of scheme/formulas.rs
formulas_parse(configuration, formula_definition) ==
    LET Result(is_final, splitted) ==
            [is_final |-> is_final, left |-> splitted[1],
             right |-> splitted[2]]
        Splitted(is_final) ==
            Result(is_final,
                   IF is_final
                   THEN str_split(formula_definition,
                                  configuration.final_delimiter)
                   ELSE str_split(formula_definition,
                                  <<configuration.delimiter>>))
    IN  Splitted(str_contains(formula_definition,
                              configuration.final_delimiter))

\* FormulaAssertions::assert_no_more_final_markers of scheme/formulas.rs
formulas_assert_no_more_final_markers(configuration, formula_definition, left, right) ==
    IF str_contains_char(left, configuration.final_marker)
    THEN Err([kind |-> "FinalMarkerOnTheLeft",
              definition |-> formula_definition])
    ELSE IF str_contains_char(right, configuration.final_marker)
    THEN Err([kind |-> "FinalMarkerOnTheRight",
              definition |-> formula_definition])
    ELSE Ok(<<>>)

\* the FormulaView built in SubstitutionFormula::new of scheme/formulas.rs:
\* full is the range of the line, left is ..left.len(), right is None or
\* the offset of the last match of the right text in the line
formulas_FormulaView(formula_definition, range, left, right) ==
    [full |-> range,
     left |-> Len(left),
     right |-> IF right = <<>> THEN None
               ELSE Some(str_rfind(formula_definition, right).value)]

\* FormulaView::get_left of scheme/formulas.rs
formulas_get_left(view, store) ==
    SubSeq(Slice(store, view.full), 1, view.left)

\* FormulaView::get_right of scheme/formulas.rs
formulas_get_right(view, store) ==
    IF view.right.some
    THEN SubSeq(Slice(store, view.full), view.right.value + 1,
                Len(Slice(store, view.full)))
    ELSE <<>>

\* SubstitutionFormula::new of scheme/formulas.rs; Simple and Final are
\* told apart by is_final
formulas_SubstitutionFormula_new(configuration, store, range) ==
    LET formula_definition == Slice(store, range)
        Marked(parsed, markers) ==
            IF markers.ok
            THEN Ok([is_final |-> parsed.is_final,
                     definition |->
                         formulas_FormulaView(formula_definition, range,
                                              parsed.left, parsed.right)])
            ELSE markers
        Parsed(parsed) ==
            Marked(parsed,
                   formulas_assert_no_more_final_markers(
                       configuration, formula_definition,
                       parsed.left, parsed.right))
        Delimited(single) ==
            IF single.ok
            THEN Parsed(formulas_parse(configuration, formula_definition))
            ELSE single
        Used(usage) ==
            IF usage.ok
            THEN Delimited(formulas_assert_single_simple_delimiter(
                               configuration, formula_definition))
            ELSE usage
    IN  Used(formulas_assert_alphabet_usage(configuration, formula_definition))

\* SubstitutionFormula::apply of scheme/formulas.rs: Halt, Applied or
\* NotApplied with the string
formulas_apply(formula, store, string) ==
    LET Substituted(substitution_result) ==
            IF formula.is_final
            THEN [tag |-> "Halt", string |-> substitution_result]
            ELSE [tag |-> "Applied", string |-> substitution_result]
    IN  IF str_contains(string, formulas_get_left(formula.definition, store))
        THEN Substituted(
                 str_replacen(string,
                              formulas_get_left(formula.definition, store),
                              formulas_get_right(formula.definition, store)))
        ELSE [tag |-> "NotApplied", string |-> string]

\* AlgorithmScheme::assert_line_is_not_empty of scheme.rs
assert_line_is_not_empty(line) ==
    IF line = <<>> THEN Err([kind |-> "EncounteredEmptyLine"]) ELSE Ok(<<>>)

RECURSIVE ReadLines(_, _, _, _)
\* the body of the loop of AlgorithmScheme::new that skips the test for an
\* empty line
ReadLine_unasserted(configuration, buffer, formulas, rest) ==
    LET Created(pushed, formula) ==
            IF formula.ok
            THEN ReadLines(configuration, pushed,
                           Append(formulas, formula.value), Tail(rest))
            ELSE Err([kind |-> "FormulaCreationFailed",
                      source |-> formula.value])
        Pushed(pushed) ==
            Created(pushed,
                    formulas_SubstitutionFormula_new(
                        configuration, pushed,
                        [start |-> Len(buffer), end |-> Len(pushed)]))
    IN  Pushed(buffer \o Head(rest))

\* the body of the loop over definition.lines() in AlgorithmScheme::new
ReadLine(configuration, buffer, formulas, rest) ==
    LET Created(pushed, formula) ==
            IF formula.ok
            THEN ReadLines(configuration, pushed,
                           Append(formulas, formula.value), Tail(rest))
            ELSE Err([kind |-> "FormulaCreationFailed",
                      source |-> formula.value])
        Pushed(pushed) ==
            Created(pushed,
                    formulas_SubstitutionFormula_new(
                        configuration, pushed,
                        [start |-> Len(buffer), end |-> Len(pushed)]))
        NotEmpty(not_empty) ==
            IF not_empty.ok THEN Pushed(buffer \o Head(rest)) ELSE not_empty
    IN  NotEmpty(assert_line_is_not_empty(Head(rest)))

\* the loop over definition.lines() in AlgorithmScheme::new
ReadLines(configuration, buffer, formulas, rest) ==
    IF rest = <<>>
    THEN Ok([configuration |-> configuration, store |-> buffer,
             formulas |-> formulas])
    ELSE ReadLine(configuration, buffer, formulas, rest)

\* AlgorithmScheme::new of scheme.rs
AlgorithmScheme_new(configuration, definition) ==
    ReadLines(configuration, <<>>, <<>>, lines(definition))

RECURSIVE TryFormulas(_, _, _)
\* the match on the result of formula.apply in the for loop of the apply
\* of scheme.rs
AfterTried(self, formula_index, result) ==
    IF result.tag = "NotApplied"
    THEN TryFormulas(self, result.string, formula_index + 1)
    ELSE result

\* the for loop over the formulas in the apply of scheme.rs
TryFormulas(self, string, formula_index) ==
    IF formula_index > Len(self.formulas)
    THEN [tag |-> "NotApplied", string |-> string]
    ELSE AfterTried(self, formula_index,
                    formulas_apply(self.formulas[formula_index], self.store,
                                   string))

\* AlgorithmScheme::assert_alphabet_usage of scheme.rs
assert_alphabet_usage(self, string) ==
    LET Unsupported(character) ==
            character \notin self.configuration.extended_alphabet
        Found(unsupported) ==
            IF unsupported /= <<>>
            THEN Err([kind |-> "UnknownCharacterEncountered",
                      character |-> unsupported[1]])
            ELSE Ok(<<>>)
    IN  Found(SelectSeq(string, Unsupported))

\* the start of the apply of scheme.rs: the assertion on the string and
\* Limitter::new(limit)
Limitter_called(self, run) ==
    LET Used(usage) ==
            IF usage.ok
            THEN [run EXCEPT !.at = "loop", !.steps_done = u32(0, 0)]
            ELSE [run EXCEPT !.at = "returned", !.result = usage]
    IN  Used(assert_alphabet_usage(self, run.word))

\* Limitter::tick, on the run that holds the Limitter (limit is
\* steps_limit, step is steps_done): Ok, or Err with step left as it is
Limitter_tick(run) ==
    LET Incremented(incremented) ==
            IF ~incremented.some
            THEN [run EXCEPT !.at = "returned",
                             !.result = Err([kind |-> "HitTheStepsLimit",
                                             steps |-> run.steps_limit])]
            ELSE IF u32_lt(run.steps_limit, incremented.value)
            THEN [run EXCEPT !.steps_done = incremented.value,
                             !.at = "returned",
                             !.result = Err([kind |-> "HitTheStepsLimit",
                                             steps |-> run.steps_limit])]
            ELSE [run EXCEPT !.steps_done = incremented.value]
    IN  Incremented(u32_checked_add_1(run.steps_done))

\* the formulas tried in order after a tick that returned Ok: Halt, or no
\* formula applied, returns current_step and the string; Applied goes on
Limitter_counted(ticked, result) ==
    IF result.tag = "Applied"
    THEN [ticked EXCEPT !.word = result.string]
    ELSE [ticked EXCEPT !.at = "returned",
                        !.result = Ok([word |-> result.string,
                                       steps_done |-> ticked.steps_done])]

\* a pass of the 'main loop of the apply of scheme.rs
Limitter_iteration(self, run) ==
    LET Ticked(ticked) ==
            IF ticked.at = "returned" THEN ticked
            ELSE Limitter_counted(ticked, TryFormulas(self, run.word, 1))
    IN  Ticked(Limitter_tick(run))

(***************************************************************************)
(* ApplicationIterator                                                     *)
(***************************************************************************)
\* ApplicationIterator::new
ApplicationIterator_new(w) == [word |-> w, is_completed |-> FALSE]

\* get_application_iterator that does not validate its word
get_application_iterator_unvalidated(self, w) ==
    Ok(ApplicationIterator_new(w))

\* AlgorithmScheme::get_application_iterator
get_application_iterator(self, w) ==
    LET Valid(valid) ==
            IF valid.ok THEN Ok(ApplicationIterator_new(w)) ELSE valid
    IN  Valid(assert_valid_word(self, w))

\* the iterator after an advance, the Option the advance returned, and
\* whether the advance panicked
Advanced(it, item, panic) == [iterator |-> it, item |-> item, panic |-> panic]

\* ApplicationIterator::next that never marks the iterator completed
ApplicationIterator_next_never_completed(self, it) ==
    LET Expected(result) ==
            IF ~result.ok THEN Advanced(it, None, TRUE)
            ELSE Advanced([word |-> result.value.data.word,
                           is_completed |-> FALSE],
                          Some(result.value.data), FALSE)
    IN  IF it.is_completed THEN Advanced(it, None, FALSE)
        ELSE Expected(apply_once(self, it.word))

\* ApplicationIterator::next; the expect on the result of apply_once panics
\* on an Err
ApplicationIterator_next(self, it) ==
    LET Expected(result) ==
            IF ~result.ok THEN Advanced(it, None, TRUE)
            ELSE Advanced([word |-> result.value.data.word,
                           is_completed |-> (result.value.tag = "Final")],
                          Some(result.value.data), FALSE)
    IN  IF it.is_completed THEN Advanced(it, None, FALSE)
        ELSE Expected(apply_once(self, it.word))

(***************************************************************************)
(* The schemes and the words of the model                                  *)
(***************************************************************************)
\* the alphabet of the schemes: main set {a}, extended with e
ModelAlphabet == [main |-> {"a"}, extension |-> {"e"}]

\* finalize_properties, with a delimiter and a final marker set by
\* with_delimiter and with_final_marker
ModelProperties ==
    [delimiter |-> ">", final_marker |-> ".", alphabet |-> ModelAlphabet]

\* a character outside the extended alphabet
UnknownCharacter == "x"

\* all strings over characters, of length from..to
Strings(characters, from, to) ==
    UNION {[1..n -> characters] : n \in from..to}

DefinitionCharacters ==
    ModelAlphabet.main \cup ModelAlphabet.extension
        \cup {ModelProperties.delimiter, ModelProperties.final_marker}

\* the definition lines of at most n characters a scheme can be built from
\* (an empty line has no delimiter and is never built)
BuildableLines(n) ==
    {line \in Strings(DefinitionCharacters, 1, n) :
        build_with_formula_definitions(ModelProperties, <<line>>).ok}

RECURSIVE DefinitionLists(_)
\* the lists of buildable lines whose store is at most budget long
DefinitionLists(budget) ==
    {<<>>} \cup
    UNION {{<<line>> \o rest : rest \in DefinitionLists(budget - Len(line))} :
               line \in BuildableLines(budget)}

\* what build_with_formula_definitions returns for them
Built ==
    {build_with_formula_definitions(ModelProperties, formula_definitions) :
        formula_definitions \in DefinitionLists(MaxStore)}

\* the schemes built
Schemes == {built.value : built \in {result \in Built : result.ok}}

\* the words a caller passes in
Words ==
    Strings(ModelAlphabet.main \cup ModelAlphabet.extension
                \cup {UnknownCharacter}, 0, MaxWordLen)

\* the builder of the schemes: ModelProperties set with with_delimiter,
\* with_final_marker and with_alphabet
ModelBuilder ==
    with_alphabet(
        with_final_marker(
            with_delimiter(AlgorithmSchemeBuilder_new,
                           ModelProperties.delimiter),
            ModelProperties.final_marker),
        ModelAlphabet)

\* a call of build_with_formula_definitions on the builder self: the
\* finalized properties, the definition lines and the Result
BuildCall(self, formula_definitions) ==
    [properties |-> finalize_properties(self),
     formula_definitions |-> formula_definitions,
     result |-> build_with_formula_definitions(finalize_properties(self),
                                               formula_definitions)]

\* the calls the schemes of the model were built by
ModelBuilds ==
    {BuildCall(ModelBuilder, formula_definitions) :
        formula_definitions \in DefinitionLists(MaxStore)}

\* the characters given to with_delimiter and with_final_marker
PropertyCharacters ==
    {ModelProperties.delimiter, ModelProperties.final_marker}
        \cup ModelAlphabet.main \cup ModelAlphabet.extension

\* the characters of the definition lines given to a builder
LineCharacters == DefinitionCharacters \cup {UnknownCharacter}

RECURSIVE DefinitionTexts(_)
\* the lists of lines, buildable or not, of a text of at most budget
\* characters, line breaks included
DefinitionTexts(budget) ==
    {<<>>} \cup
    UNION {{<<line>> \o rest : rest \in DefinitionTexts(budget - Len(line) - 1)} :
               line \in Strings(LineCharacters, 0, budget - 1)}

\* the configuration of the whole-document schemes
ModelConfiguration ==
    over_alphabet(ModelProperties.delimiter, ModelProperties.final_marker,
                  ModelAlphabet.main \cup ModelAlphabet.extension).value

RECURSIVE Document(_)
\* the definition text with the given lines
Document(formula_definitions) ==
    IF formula_definitions = <<>> THEN <<>>
    ELSE IF Len(formula_definitions) = 1 THEN formula_definitions[1]
    ELSE formula_definitions[1] \o <<"\n">> \o Document(Tail(formula_definitions))

\* a call of AlgorithmScheme::new: the configuration, the definition and
\* the Result
NewCall(configuration, definition) ==
    [configuration |-> configuration,
     definition |-> definition,
     result |-> AlgorithmScheme_new(configuration, definition)]

\* the definition texts given to AlgorithmScheme::new: line feeds and the
\* characters of the lines
Documents == Strings(LineCharacters \cup {"\n"}, 0, MaxDefinitionText)

\* the characters alphabets are made of and extended with
AlphabetCharacters == {"a", "b"}
ExtensionCharacters == AlphabetCharacters \cup {"c", "d"}

(***************************************************************************)
(* The state machine: a built scheme and a caller that holds a word and    *)
(* calls apply, apply_once (repeatedly, each time on the word returned by  *)
(* the previous call) and get_application_iterator on it, and advances the *)
(* iterator.                                                               *)
(*   full      the call of apply made, with its steps_limit and result     *)
(*   singles   the calls of apply_once made, each with its word and result *)
(*   iterator  the result of get_application_iterator, then the iterator   *)
(*   yields    what the advances of the iterator returned, each with the   *)
(*             word the iterator held before the advance                   *)
(*   panicked  an advance of the iterator panicked                         *)
(***************************************************************************)
Init ==
    /\ scheme \in Schemes
    /\ scheme_builder = None
    /\ build \in {<<call>> : call \in {made \in ModelBuilds :
                                           made.result.value = scheme}}
    /\ creation = <<>>
    /\ word \in Words
    /\ full = <<>>
    /\ singles = <<>>
    /\ iterator = <<>>
    /\ yields = <<>>
    /\ panicked = FALSE
    /\ callers = <<>>
    /\ returned = <<>>
    /\ counting = <<>>
    /\ document = <<>>
    /\ NoInput

\* scheme.apply(word, steps_limit)
Apply(steps_limit) ==
    /\ full = <<>>
    /\ full' = <<[steps_limit |-> steps_limit,
                  result |-> apply(scheme, word, steps_limit)]>>
    /\ UNCHANGED <<scheme, word, singles, iterator, yields, panicked>>
    /\ UNCHANGED <<scheme_builder, build, creation, sharing_vars, counting_vars, input_vars>>

\* scheme.apply_once(w), w the caller's word or the word of the previous
\* Intermediate result
ApplyOnce ==
    /\ Len(singles) < MaxLimit
    /\ singles /= <<>> =>
           /\ singles[Len(singles)].result.ok
           /\ singles[Len(singles)].result.value.tag = "Intermediate"
    /\ LET w == IF singles = <<>> THEN word
                ELSE singles[Len(singles)].result.value.data.word
       IN  singles' = Append(singles, [word |-> w,
                                       result |-> apply_once(scheme, w)])
    /\ UNCHANGED <<scheme, word, full, iterator, yields, panicked>>
    /\ UNCHANGED <<scheme_builder, build, creation, sharing_vars, counting_vars, input_vars>>

\* scheme.get_application_iterator(word)
GetApplicationIterator ==
    /\ iterator = <<>>
    /\ iterator' = <<get_application_iterator(scheme, word)>>
    /\ UNCHANGED <<scheme, word, full, singles, yields, panicked>>
    /\ UNCHANGED <<scheme_builder, build, creation, sharing_vars, counting_vars, input_vars>>

\* iterator.next()
IteratorNext ==
    /\ iterator /= <<>>
    /\ iterator[1].ok
    /\ ~panicked
    /\ Len(yields) < MaxLimit
    /\ LET advanced == ApplicationIterator_next(scheme, iterator[1].value)
       IN  /\ iterator' = <<Ok(advanced.iterator)>>
           /\ panicked' = advanced.panic
           /\ yields' = IF advanced.panic THEN yields
                        ELSE Append(yields,
                                    [word |-> iterator[1].value.word,
                                     item |-> advanced.item])
    /\ UNCHANGED <<scheme, word, full, singles>>
    /\ UNCHANGED <<scheme_builder, build, creation, sharing_vars, counting_vars, input_vars>>

Next ==
    \/ \E steps_limit \in 0..MaxLimit : Apply(steps_limit)
    \/ ApplyOnce
    \/ GetApplicationIterator
    \/ IteratorNext

Spec == Init /\ [][Next]_vars

(***************************************************************************)
(* The state machine of a builder: a caller creates an                     *)
(* AlgorithmSchemeBuilder, sets its delimiter, final marker and alphabet   *)
(* in any order and any number of times, and builds a scheme from a list   *)
(* of definition lines, which consumes the builder.                        *)
(*   scheme_builder  the builder (None once it is moved into the build)    *)
(*   build           the call of build_with_formula_definitions made       *)
(***************************************************************************)
\* no scheme is applied and no alphabet is created here
NoApplication ==
    /\ scheme = None
    /\ word = <<>>
    /\ full = <<>>
    /\ singles = <<>>
    /\ iterator = <<>>
    /\ yields = <<>>
    /\ panicked = FALSE

application_vars == <<scheme, word, full, singles, iterator, yields, panicked>>

\* no scheme is shared by callers
NoCallers ==
    /\ callers = <<>>
    /\ returned = <<>>

\* no application is counted and no document is read
NoCounting ==
    /\ counting = <<>>
    /\ document = <<>>

BuilderInit ==
    /\ NoApplication
    /\ NoCallers
    /\ NoCounting
    /\ NoInput
    /\ scheme_builder = Some(AlgorithmSchemeBuilder_new)
    /\ build = <<>>
    /\ creation = <<>>

\* builder.with_delimiter(delimiter)
WithDelimiter(delimiter) ==
    /\ scheme_builder.some
    /\ scheme_builder' = Some(with_delimiter(scheme_builder.value, delimiter))
    /\ UNCHANGED <<application_vars, build, creation, sharing_vars, counting_vars, input_vars>>

\* builder.with_final_marker(final_marker)
WithFinalMarker(final_marker) ==
    /\ scheme_builder.some
    /\ scheme_builder' =
           Some(with_final_marker(scheme_builder.value, final_marker))
    /\ UNCHANGED <<application_vars, build, creation, sharing_vars, counting_vars, input_vars>>

\* builder.with_alphabet(alphabet)
WithAlphabet(alphabet) ==
    /\ scheme_builder.some
    /\ scheme_builder' = Some(with_alphabet(scheme_builder.value, alphabet))
    /\ UNCHANGED <<application_vars, build, creation, sharing_vars, counting_vars, input_vars>>

\* builder.build_with_formula_definitions(formula_definitions)
Build(formula_definitions) ==
    /\ scheme_builder.some
    /\ build' = <<BuildCall(scheme_builder.value, formula_definitions)>>
    /\ scheme_builder' = None
    /\ UNCHANGED <<application_vars, creation, sharing_vars, counting_vars, input_vars>>

\* AlgorithmScheme::new(&configuration, definition), the whole-document
\* constructor, used in place of a builder
New(definition) ==
    /\ scheme_builder = Some(AlgorithmSchemeBuilder_new)
    /\ document' = <<NewCall(ModelConfiguration, definition)>>
    /\ scheme_builder' = None
    /\ UNCHANGED <<application_vars, build, creation, sharing_vars, counting,
                   input_vars>>

BuilderNext ==
    \/ \E delimiter \in PropertyCharacters : WithDelimiter(delimiter)
    \/ \E final_marker \in PropertyCharacters : WithFinalMarker(final_marker)
    \/ WithAlphabet(ModelAlphabet)
    \/ \E formula_definitions \in DefinitionTexts(MaxDefinitionText) :
           Build(formula_definitions)
    \/ /\ scheme_builder.some
       /\ \E definition \in Documents : New(definition)

BuilderSpec == BuilderInit /\ [][BuilderNext]_vars

(***************************************************************************)
(* The state machine of an alphabet: a caller creates an alphabet from a   *)
(* string or from a set of characters and extends it, each extension       *)
(* consuming the alphabet and returning a Result.                          *)
(*   creation  the call that created the alphabet: its source, the         *)
(*             characters extend was called with since, and the Result of  *)
(*             the last call                                               *)
(***************************************************************************)
AlphabetInit ==
    /\ NoApplication
    /\ NoCallers
    /\ NoCounting
    /\ NoInput
    /\ scheme_builder = None
    /\ build = <<>>
    /\ creation = <<>>

\* Alphabet::from_str(characters), or str::parse
FromStr(characters) ==
    /\ creation = <<>>
    /\ creation' = <<[source |-> characters, from |-> "from_str",
                      extended |-> <<>>, result |-> from_str(characters)]>>
    /\ UNCHANGED <<application_vars, scheme_builder, build, sharing_vars, counting_vars, input_vars>>

\* Alphabet::try_from(characters), characters a &str
TryFromStr(characters) ==
    /\ creation = <<>>
    /\ creation' = <<[source |-> characters, from |-> "try_from_str",
                      extended |-> <<>>, result |-> try_from_str(characters)]>>
    /\ UNCHANGED <<application_vars, scheme_builder, build, sharing_vars, counting_vars, input_vars>>

\* Alphabet::try_from(&other), other a HashSet
TryFrom(other) ==
    /\ creation = <<>>
    /\ creation' = <<[source |-> other, from |-> "try_from",
                      extended |-> <<>>, result |-> try_from(other)]>>
    /\ UNCHANGED <<application_vars, scheme_builder, build, sharing_vars, counting_vars, input_vars>>

\* alphabet.extend(character), on the alphabet of the last Ok
Extend(character) ==
    /\ creation /= <<>>
    /\ creation[1].result.ok
    /\ Len(creation[1].extended) < MaxCharacters
    /\ creation' =
           <<[creation[1] EXCEPT
                  !.extended = Append(@, character),
                  !.result = extend(creation[1].result.value, character)]>>
    /\ UNCHANGED <<application_vars, scheme_builder, build, sharing_vars, counting_vars, input_vars>>

AlphabetNext ==
    \/ \E characters \in Strings(AlphabetCharacters, 0, MaxCharacters) :
           \/ FromStr(characters)
           \/ TryFromStr(characters)
    \/ \E other \in SUBSET AlphabetCharacters : TryFrom(other)
    \/ \E character \in ExtensionCharacters : Extend(character)

AlphabetSpec == AlphabetInit /\ [][AlphabetNext]_vars

(***************************************************************************)
(* Callers that share one scheme by reference: every method of             *)
(* AlgorithmScheme takes &self, and an ApplicationIterator holds a         *)
(* reference to the scheme and its own word and completion flag.  The      *)
(* calls of the callers interleave in any order.                           *)
(***************************************************************************)
Callers == {"first", "second"}

\* the formula definitions of the shared schemes
SharedDefinitions ==
    {<< <<"a", ">">> >>,
     << <<">", "a">> >>,
     << <<"a", ">", "e">> >>,
     << <<"a", "a", ">", ".">>, <<"a", ">", "a", "a">> >>}

\* the words the callers pass in
SharedWords == {<<>>, <<"a">>, <<"a", "a">>, <<UnknownCharacter>>}

\* a caller that holds no iterator
NoIterator == [start |-> <<>>, iterator |-> <<>>, advances |-> 0,
               panicked |-> FALSE]

\* the record of a call that returned
Returned(caller, call, w, steps_limit, result) ==
    [caller |-> caller, call |-> call, word |-> w,
     steps_limit |-> steps_limit, result |-> result]

SharedInit ==
    /\ build \in {<<BuildCall(ModelBuilder, formula_definitions)>> :
                      formula_definitions \in SharedDefinitions}
    /\ scheme = build[1].result.value
    /\ scheme_builder = None
    /\ creation = <<>>
    /\ word = <<>>
    /\ full = <<>>
    /\ singles = <<>>
    /\ iterator = <<>>
    /\ yields = <<>>
    /\ panicked = FALSE
    /\ callers = [caller \in Callers |-> NoIterator]
    /\ returned = <<>>
    /\ NoCounting
    /\ NoInput

shared_unchanged == <<scheme, word, full, singles, iterator, yields, panicked,
                      scheme_builder, build, creation, counting_vars, input_vars>>

\* caller calls scheme.apply(w, steps_limit)
SharedApply(caller, w, steps_limit) ==
    /\ returned' = <<Returned(caller, "apply", w, steps_limit,
                              apply(scheme, w, steps_limit))>>
    /\ UNCHANGED <<shared_unchanged, callers>>

\* caller calls scheme.apply_once(w)
SharedApplyOnce(caller, w) ==
    /\ returned' = <<Returned(caller, "apply_once", w, 1,
                              apply_once(scheme, w))>>
    /\ UNCHANGED <<shared_unchanged, callers>>

\* caller calls scheme.get_application_iterator(w) and keeps the result
SharedGetApplicationIterator(caller, w) ==
    /\ callers[caller].iterator = <<>>
    /\ callers' = [callers EXCEPT ![caller] =
                       [start |-> w,
                        iterator |-> <<get_application_iterator(scheme, w)>>,
                        advances |-> 0,
                        panicked |-> FALSE]]
    /\ returned' = <<Returned(caller, "get_application_iterator", w, 0,
                              get_application_iterator(scheme, w))>>
    /\ UNCHANGED shared_unchanged

\* the advance of the iterator of caller, which touches the iterators of
\* all the callers
SharedNext_on_one_position(caller) ==
    /\ callers[caller].iterator /= <<>>
    /\ callers[caller].iterator[1].ok
    /\ ~callers[caller].panicked
    /\ callers[caller].advances < MaxLimit
    /\ LET Advance(advanced) ==
               /\ callers' =
                      [other \in Callers |->
                          IF other = caller
                          THEN [callers[caller] EXCEPT
                                    !.iterator = <<Ok(advanced.iterator)>>,
                                    !.advances = @ + 1,
                                    !.panicked = advanced.panic]
                          ELSE IF /\ callers[other].iterator /= <<>>
                                  /\ callers[other].iterator[1].ok
                          THEN [callers[other] EXCEPT
                                    !.iterator = <<Ok(advanced.iterator)>>]
                          ELSE callers[other]]
               /\ returned' = <<Returned(caller, "next",
                                         callers[caller].start,
                                         callers[caller].advances + 1,
                                         [item |-> advanced.item,
                                          panic |-> advanced.panic])>>
       IN  Advance(ApplicationIterator_next(scheme,
                                            callers[caller].iterator[1].value))
    /\ UNCHANGED shared_unchanged

\* caller calls next() on its iterator
SharedNext(caller) ==
    /\ callers[caller].iterator /= <<>>
    /\ callers[caller].iterator[1].ok
    /\ ~callers[caller].panicked
    /\ callers[caller].advances < MaxLimit
    /\ LET Advance(advanced) ==
               /\ callers' =
                      [callers EXCEPT ![caller] =
                           [@ EXCEPT !.iterator = <<Ok(advanced.iterator)>>,
                                     !.advances = @ + 1,
                                     !.panicked = advanced.panic]]
               /\ returned' = <<Returned(caller, "next",
                                         callers[caller].start,
                                         callers[caller].advances + 1,
                                         [item |-> advanced.item,
                                          panic |-> advanced.panic])>>
       IN  Advance(ApplicationIterator_next(scheme,
                                            callers[caller].iterator[1].value))
    /\ UNCHANGED shared_unchanged

SharedCalls ==
    \E caller \in Callers :
        \/ \E w \in SharedWords :
               \/ \E steps_limit \in 0..MaxLimit :
                      SharedApply(caller, w, steps_limit)
               \/ SharedApplyOnce(caller, w)
               \/ SharedGetApplicationIterator(caller, w)
        \/ SharedNext(caller)

SharedSpec == SharedInit /\ [][SharedCalls]_vars

(***************************************************************************)
(* A full application counted step by step: apply of scheme/mod.rs with    *)
(* steps_done, and apply of scheme.rs with its Limitter, over the same     *)
(* formula lines.  The scheme a>a never halts on a word with an a and      *)
(* leaves the word as it is, so the head of its loop is reached with       *)
(* every value of the counter up to the limit.                             *)
(***************************************************************************)
NeverHalting == << <<"a", ">", "a">> >>

CountedDefinitions ==
    {NeverHalting, << <<"a", ">", ".", "a">> >>, << <<"a", ">">> >>}

CountedWords == {<<>>, <<"a">>, <<UnknownCharacter>>}

\* the limits: the small ones, the ones around a carry into the upper
\* half, and the ones up to u32::MAX
CountedLimits ==
    {u32(0, n) : n \in 0..MaxLimit}
        \cup {u32(0, u16_RANGE - 1), u32(1, 0)}
        \cup {u32(u16_RANGE - 1, u16_RANGE - 1 - n) : n \in 0..1}

\* counter values a long run passes through
FarCounters ==
    {u32(0, u16_RANGE - 1 - n) : n \in 0..1}
        \cup {u32(1, 0)}
        \cup {u32(u16_RANGE - 1, u16_RANGE - 1 - n) : n \in 0..MaxLimit}

\* the counter values from which a pass of the loop is followed: the first
\* ones of a run and the far ones
Followed(steps_done) ==
    \/ steps_done \in {u32(0, n) : n \in 0..MaxLimit}
    \/ steps_done \in FarCounters

CounterInit ==
    /\ NoCallers
    /\ NoInput
    /\ scheme_builder = None
    /\ creation = <<>>
    /\ word \in CountedWords
    /\ full = <<>>
    /\ singles = <<>>
    /\ iterator = <<>>
    /\ yields = <<>>
    /\ panicked = FALSE
    /\ build \in {<<BuildCall(ModelBuilder, formula_definitions)>> :
                      formula_definitions \in CountedDefinitions}
    /\ scheme = build[1].result.value
    /\ document = <<NewCall(ModelConfiguration,
                            Document(build[1].formula_definitions))>>
    /\ \E of \in {"apply", "Limitter"}, overflow_checks \in BOOLEAN,
          steps_limit \in CountedLimits :
           \/ counting = <<Run(of, overflow_checks, steps_limit, u32(0, 0),
                               word, "called", <<>>)>>
           \/ /\ build[1].formula_definitions = NeverHalting
              /\ word = <<"a">>
              /\ \E steps_done \in FarCounters :
                     /\ u32_lt(steps_done, steps_limit)
                            \/ steps_done = steps_limit
                     /\ counting = <<Run(of, overflow_checks, steps_limit,
                                         steps_done, word, "loop", <<>>)>>

counter_unchanged == <<scheme, word, full, singles, iterator, yields, panicked,
                       scheme_builder, build, creation, sharing_vars,
                       document, input_vars>>

\* scheme.apply(word, steps_limit) is called
ApplyCalled ==
    /\ counting[1].of = "apply"
    /\ counting[1].at = "called"
    /\ counting' = <<apply_called(scheme, counting[1])>>
    /\ UNCHANGED counter_unchanged

\* the test of the while loop of apply and, if it passes, its body
ApplyIteration ==
    /\ counting[1].of = "apply"
    /\ counting[1].at = "loop"
    /\ Followed(counting[1].steps_done)
    /\ counting' = <<apply_iteration(scheme, counting[1])>>
    /\ UNCHANGED counter_unchanged

\* the apply of scheme.rs is called
LimitterCalled ==
    /\ counting[1].of = "Limitter"
    /\ counting[1].at = "called"
    /\ counting' = <<Limitter_called(document[1].result.value, counting[1])>>
    /\ UNCHANGED counter_unchanged

\* a pass of the 'main loop of the apply of scheme.rs
LimitterIteration ==
    /\ counting[1].of = "Limitter"
    /\ counting[1].at = "loop"
    /\ Followed(counting[1].steps_done)
    /\ counting' = <<Limitter_iteration(document[1].result.value,
                                        counting[1])>>
    /\ UNCHANGED counter_unchanged

CounterNext ==
    \/ ApplyCalled
    \/ ApplyIteration
    \/ LimitterCalled
    \/ LimitterIteration

CounterSpec == CounterInit /\ [][CounterNext]_vars

(***************************************************************************)
(* The handler of the user's input (input.rs).  setup makes a channel,     *)
(* gives one sender to the Ctrl-C handler, which sends false, and keeps    *)
(* the receiver and a sender.  should_continue joins the thread of the     *)
(* previous call, and, while the field should_continue is true, spawns a   *)
(* thread that reads a line from stdin and then sends true, and blocks on  *)
(* the receiver; what it receives becomes the field and the result.        *)
(*   input_handler  the fields should_continue and thread_handle           *)
(*   channel        the signals sent and not received, oldest first        *)
(*   threads        the spawned threads, each "reading" (in read_line),    *)
(*                  "read" (a line is read), "sent" or "finished"          *)
(*   terminal       the lines typed and not read, and the numbers of       *)
(*                  lines typed and of Ctrl-C signals so far               *)
(*   calling        where the calling thread is, and its calls of          *)
(*                  should_continue, the one in progress last              *)
(***************************************************************************)
\* the most calls of should_continue
MaxCalls == 3
\* the most Ctrl-C signals
MaxSignals == 2
\* the most lines the user types
MaxLines == 2

\* UserInputHandler::setup
UserInputHandler_setup == [should_continue |-> TRUE, thread_handle |-> None]

\* thread_handle.join() returns: the thread has finished
Joined(thread_handle) ==
    thread_handle.some => threads[thread_handle.value] = "finished"

wait_for_previous_thread_without_join(self) == TRUE

\* wait_for_previous_thread can return
wait_for_previous_thread(self) == Joined(self.thread_handle)

\* a call of should_continue, as it starts
Call ==
    [cancelled |-> terminal.signals > 0,
     left_over |-> channel,
     should_continue |-> input_handler.should_continue,
     spawned |-> None,
     result |-> None]

InProgress == calling.calls[Len(calling.calls)]

Progress(at, call) ==
    [at |-> at,
     calls |-> [calling.calls EXCEPT ![Len(calling.calls)] = call]]

\* the threads that read stdin and have not finished
Readers == {thread \in 1..Len(threads) : threads[thread] # "finished"}

InputInit ==
    /\ NoApplication
    /\ NoCallers
    /\ NoCounting
    /\ scheme_builder = None
    /\ build = <<>>
    /\ creation = <<>>
    /\ input_handler = UserInputHandler_setup
    /\ channel = <<>>
    /\ threads = <<>>
    /\ terminal = [lines |-> 0, typed |-> 0, signals |-> 0]
    /\ calling = [at |-> "returned", calls |-> <<>>]

input_unchanged == <<scheme, word, full, singles, iterator, yields, panicked,
                     scheme_builder, build, creation, sharing_vars,
                     counting_vars>>

\* input_handler.should_continue() is called
ShouldContinueCalled ==
    /\ calling.at = "returned"
    /\ Len(calling.calls) < MaxCalls
    /\ calling' = [at |-> "wait_for_previous_thread",
                   calls |-> Append(calling.calls, Call)]
    /\ UNCHANGED <<input_handler, channel, threads, terminal>>
    /\ UNCHANGED input_unchanged

\* self.wait_for_previous_thread() returns
WaitForPreviousThread ==
    /\ calling.at = "wait_for_previous_thread"
    /\ wait_for_previous_thread(input_handler)
    /\ input_handler' = [input_handler EXCEPT !.thread_handle = None]
    /\ calling' = Progress("if", InProgress)
    /\ UNCHANGED <<channel, threads, terminal>>
    /\ UNCHANGED input_unchanged

IfShouldContinue_always ==
    /\ calling.at = "if"
    /\ threads' = Append(threads, "reading")
    /\ input_handler' = [input_handler EXCEPT
                             !.thread_handle = Some(Len(threads) + 1)]
    /\ calling' = Progress("recv", [InProgress EXCEPT
                                        !.spawned = Some(Len(threads) + 1)])
    /\ UNCHANGED <<channel, terminal>>
    /\ UNCHANGED input_unchanged

\* if self.should_continue: the thread is spawned; otherwise the call
\* returns Ok(self.should_continue)
IfShouldContinue ==
    /\ calling.at = "if"
    /\ IF input_handler.should_continue
       THEN /\ threads' = Append(threads, "reading")
            /\ input_handler' = [input_handler EXCEPT
                                     !.thread_handle = Some(Len(threads) + 1)]
            /\ calling' = Progress("recv",
                                   [InProgress EXCEPT
                                        !.spawned = Some(Len(threads) + 1)])
       ELSE /\ calling' = Progress("returned",
                                   [InProgress EXCEPT
                                        !.result =
                                            Some(input_handler.should_continue)])
            /\ UNCHANGED <<input_handler, threads>>
    /\ UNCHANGED <<channel, terminal>>
    /\ UNCHANGED input_unchanged

\* self.should_continue = self.receiver.recv()?; Ok(self.should_continue)
Recv ==
    /\ calling.at = "recv"
    /\ channel # <<>>
    /\ input_handler' = [input_handler EXCEPT !.should_continue = Head(channel)]
    /\ channel' = Tail(channel)
    /\ calling' = Progress("returned",
                           [InProgress EXCEPT !.result = Some(Head(channel))])
    /\ UNCHANGED <<threads, terminal>>
    /\ UNCHANGED input_unchanged

\* stdin().read_line(..) returns in the spawned thread
ReaderReadsLine(thread) ==
    /\ threads[thread] = "reading"
    /\ terminal.lines > 0
    /\ threads' = [threads EXCEPT ![thread] = "read"]
    /\ terminal' = [terminal EXCEPT !.lines = @ - 1]
    /\ UNCHANGED <<input_handler, channel, calling>>
    /\ UNCHANGED input_unchanged

\* stdin_sender.send(true)
ReaderSends(thread) ==
    /\ threads[thread] = "read"
    /\ threads' = [threads EXCEPT ![thread] = "sent"]
    /\ channel' = Append(channel, TRUE)
    /\ UNCHANGED <<input_handler, terminal, calling>>
    /\ UNCHANGED input_unchanged

\* the closure of the spawned thread returns
ReaderExits(thread) ==
    /\ threads[thread] = "sent"
    /\ threads' = [threads EXCEPT ![thread] = "finished"]
    /\ UNCHANGED <<input_handler, channel, terminal, calling>>
    /\ UNCHANGED input_unchanged

\* the user hits Ctrl-C: the handler runs handler_sender.send(false)
CtrlC ==
    /\ terminal.signals < MaxSignals
    /\ terminal' = [terminal EXCEPT !.signals = @ + 1]
    /\ channel' = Append(channel, FALSE)
    /\ UNCHANGED <<input_handler, threads, calling>>
    /\ UNCHANGED input_unchanged

\* the user presses ENTER
UserTypesLine ==
    /\ terminal.typed < MaxLines
    /\ terminal' = [terminal EXCEPT !.typed = @ + 1, !.lines = @ + 1]
    /\ UNCHANGED <<input_handler, channel, threads, calling>>
    /\ UNCHANGED input_unchanged

InputNext ==
    \/ ShouldContinueCalled
    \/ WaitForPreviousThread
    \/ IfShouldContinue
    \/ Recv
    \/ \E thread \in 1..Len(threads) : ReaderReadsLine(thread)
    \/ \E thread \in 1..Len(threads) : ReaderSends(thread)
    \/ \E thread \in 1..Len(threads) : ReaderExits(thread)
    \/ CtrlC
    \/ UserTypesLine

InputSpec == InputInit /\ [][InputNext]_vars

(***************************************************************************)
(* What the claims are stated with                                         *)
(***************************************************************************)
Formulas == scheme.substitution_formulas

LeftOf(i) == get_left(Formulas[i].view, scheme.store)

RightOf(i) == get_right(Formulas[i].view, scheme.store)

DefinitionOf(i) == peek_definition(Formulas[i].view, scheme.store)

\* pattern occurs in w at (0-based) offset q
OccursAt(pattern, w, q) ==
    /\ q + Len(pattern) <= Len(w)
    /\ \A n \in 1..Len(pattern) : w[q + n] = pattern[n]

Occurs(pattern, w) == \E q \in 0..Len(w) : OccursAt(pattern, w, q)

\* the formulas whose left text occurs in w
Matching(w) == {i \in 1..Len(Formulas) : Occurs(LeftOf(i), w)}

\* the first of them in definition order
FirstMatching(w) == CHOOSE i \in Matching(w) : \A j \in Matching(w) : i <= j

\* the offset of the leftmost occurrence of pattern in w
Leftmost(pattern, w) ==
    CHOOSE q \in 0..Len(w) :
        /\ OccursAt(pattern, w, q)
        /\ \A r \in 0..(q - 1) : ~OccursAt(pattern, w, r)

\* every character of w is in the main set of the alphabet
IsMainWord(w) ==
    \A n \in 1..Len(w) : w[n] \in scheme.properties.alphabet.main

\* the single steps made so far: the successful apply_once calls and the
\* advances of the iterator that yielded an item
Steps ==
    {[word |-> singles[n].word, data |-> singles[n].result.value.data] :
        n \in {m \in 1..Len(singles) : singles[m].result.ok}}
    \cup
    {[word |-> yields[n].word, data |-> yields[n].item.value] :
        n \in {m \in 1..Len(yields) : yields[m].item.some}}

(***************************************************************************)
(* C1: a single application step applies the first formula, in definition  *)
(* order, whose left text occurs in the word, and replaces the leftmost    *)
(* occurrence of that left text by the right text: the characters before   *)
(* and after that occurrence are kept as they are, and no other formula is *)
(* applied.                                                                *)
(***************************************************************************)
C1_FirstFormulaLeftmostOccurrence ==
    \A step \in Steps :
        Matching(step.word) /= {} =>
            LET first == FirstMatching(step.word)
                at == Leftmost(LeftOf(first), step.word)
            IN  /\ step.data.applied_formula_definition
                       = Some(DefinitionOf(first))
                /\ step.data.word
                       = SubSeq(step.word, 1, at) \o RightOf(first)
                         \o SubSeq(step.word, at + Len(LeftOf(first)) + 1,
                                   Len(step.word))

\* a step applied the second formula, the first one not matching, to a word
\* in which its non-empty left text occurs more than once, and changed the
\* word
C1_Witness ==
    \E step \in Steps :
        /\ Matching(step.word) /= {}
        /\ FirstMatching(step.word) > 1
        /\ LeftOf(FirstMatching(step.word)) /= <<>>
        /\ \E q, r \in 0..Len(step.word) :
               /\ q < r
               /\ OccursAt(LeftOf(FirstMatching(step.word)), step.word, q)
               /\ OccursAt(LeftOf(FirstMatching(step.word)), step.word, r)
        /\ step.data.word /= step.word

(***************************************************************************)
(* C2: the result of an apply_once call is Final exactly when the applied  *)
(* formula is a final one or no formula's left text occurs in the word,    *)
(* and Intermediate otherwise; it names no applied formula exactly when no *)
(* formula matched, and then its word is the input word.                   *)
(***************************************************************************)
C2_FinalExactlyWhenFinalFormulaOrNoMatch ==
    \A n \in 1..Len(singles) :
        singles[n].result.ok =>
            LET result == singles[n].result.value
                applied == result.data.applied_formula_definition
                final_delimiter == <<scheme.properties.delimiter,
                                     scheme.properties.final_marker>>
                none_matched == Matching(singles[n].word) = {}
            IN  /\ result.tag \in {"Final", "Intermediate"}
                /\ result.tag = "Final"
                       <=> \/ none_matched
                           \/ applied.some /\ Occurs(final_delimiter,
                                                     applied.value)
                /\ ~applied.some <=> none_matched
                /\ none_matched => result.data.word = singles[n].word

\* an Intermediate step was followed by a step that applied a final formula
C2_Witness ==
    /\ Len(singles) >= 2
    /\ singles[Len(singles)].result.ok
    /\ singles[Len(singles)].result.value.tag = "Final"
    /\ singles[Len(singles)].result.value.data.applied_formula_definition.some

(***************************************************************************)
(* C3: for a valid word and a steps_limit of at least 1, apply succeeds    *)
(* exactly when the chain of single steps from the word gives its first    *)
(* Final result at a step k <= steps_limit, and then returns the word of   *)
(* that result with steps_done = k; otherwise it fails with                *)
(* HitTheStepsLimit(steps_limit).                                          *)
(***************************************************************************)
RECURSIVE ChainStep(_)
\* the result of the k-th single step of the chain that starts at word
ChainStep(k) ==
    apply_once_unsafe(scheme,
                      IF k = 1 THEN word ELSE ChainStep(k - 1).data.word)

\* the steps of the chain, up to limit, that are the first Final one
FirstFinal(limit) ==
    {k \in 1..limit :
        /\ ChainStep(k).tag = "Final"
        /\ \A j \in 1..(k - 1) : ChainStep(j).tag = "Intermediate"}

C3_ApplyStopsAtFirstFinalWithinLimit ==
    (full /= <<>> /\ full[1].steps_limit >= 1 /\ IsMainWord(word)) =>
        LET limit == full[1].steps_limit
            result == full[1].result
        IN  /\ result.ok <=> FirstFinal(limit) /= {}
            /\ result.ok =>
                   \A k \in FirstFinal(limit) :
                       result.value = [word |-> ChainStep(k).data.word,
                                       steps_done |-> k]
            /\ ~result.ok =>
                   result.value = [kind |-> "HitTheStepsLimit",
                                   steps |-> limit]

\* apply succeeded at its last allowed step, after more than one step
C3_Witness ==
    /\ full /= <<>>
    /\ full[1].result.ok
    /\ full[1].result.value.steps_done = full[1].steps_limit
    /\ full[1].steps_limit > 1
    /\ full[1].result.value.word /= word

(***************************************************************************)
(* C4: once get_application_iterator has accepted a word, every advance of *)
(* the iterator makes one unvalidated application step on the current word *)
(* and yields its result; no advance fails or panics, whatever characters  *)
(* the earlier steps put into the current word.                            *)
(***************************************************************************)
C4_IteratorAdvanceNeverFails ==
    /\ ~panicked
    /\ \A n \in 1..Len(yields) :
           yields[n].item.some =>
               yields[n].item.value
                   = apply_once_unsafe(scheme, yields[n].word).data

(***************************************************************************)
(* C5, as claimed: when apply succeeds with steps_done = k, each of the    *)
(* first k apply_once calls of a replay from the same word succeeds, the   *)
(* first k - 1 return Intermediate, the k-th returns Final, and the k-th   *)
(* call's word is the word apply returned.                                 *)
(***************************************************************************)
C5_ReplayOfApplyOnceAlwaysSucceeds ==
    (full /= <<>> /\ full[1].result.ok) =>
        LET k == full[1].result.value.steps_done
        IN  \A n \in 1..Len(singles) :
                n <= k =>
                    /\ singles[n].result.ok
                    /\ singles[n].result.value.tag
                           = (IF n < k THEN "Intermediate" ELSE "Final")
                    /\ n = k => singles[n].result.value.data.word
                                    = full[1].result.value.word

\* the extension characters of w, in order
ExtensionCharactersOf(w) ==
    LET Extension(character) ==
            character \in scheme.properties.alphabet.extension
    IN  SelectSeq(w, Extension)

\* the characters of w outside the extended alphabet, in order
UnknownCharactersOf(w) ==
    LET Unknown(character) ==
            /\ character \notin scheme.properties.alphabet.main
            /\ character \notin scheme.properties.alphabet.extension
    IN  SelectSeq(w, Unknown)

(***************************************************************************)
(* C5, amended: when apply succeeds with steps_done = k, every one of the  *)
(* first k apply_once calls of a replay whose word has main-set characters *)
(* only succeeds, with Intermediate before the k-th call and Final and     *)
(* apply's word at the k-th; a call whose word (returned by the previous   *)
(* call) contains an extension character fails with                        *)
(* ExtensionCharactersEncountered naming those characters, and the replay  *)
(* ends there.                                                             *)
(***************************************************************************)
C5_ReplayOfApplyOnceOverMainWords ==
    (full /= <<>> /\ full[1].result.ok) =>
        LET k == full[1].result.value.steps_done
        IN  \A n \in 1..Len(singles) :
                n <= k =>
                    IF IsMainWord(singles[n].word)
                    THEN /\ singles[n].result.ok
                         /\ singles[n].result.value.tag
                                = (IF n < k THEN "Intermediate" ELSE "Final")
                         /\ n = k => singles[n].result.value.data.word
                                         = full[1].result.value.word
                    ELSE /\ ~singles[n].result.ok
                         /\ singles[n].result.value
                                = [kind |-> "ExtensionCharactersEncountered",
                                   characters |->
                                       ExtensionCharactersOf(singles[n].word)]
                         /\ n = Len(singles)

\* apply succeeded after more than one step and the replay of as many
\* apply_once calls went through, ending with Final and a changed word
C5_Witness ==
    /\ full /= <<>>
    /\ full[1].result.ok
    /\ full[1].result.value.steps_done >= 2
    /\ Len(singles) = full[1].result.value.steps_done
    /\ \A n \in 1..Len(singles) : singles[n].result.ok
    /\ singles[Len(singles)].result.value.tag = "Final"
    /\ full[1].result.value.word /= word

(***************************************************************************)
(* C6: the first advance of an application iterator yields an item; after  *)
(* the item of a Final step has been yielded, every later advance yields   *)
(* nothing; and no item is yielded after an advance that yielded nothing.  *)
(***************************************************************************)
C6_IteratorExhaustedAfterFinal ==
    /\ panicked => yields /= <<>>
    /\ yields /= <<>> => yields[1].item.some
    /\ \A m, n \in 1..Len(yields) :
           m < n =>
               /\ ( /\ yields[m].item.some
                    /\ apply_once_unsafe(scheme, yields[m].word).tag = "Final" )
                      => ~yields[n].item.some
               /\ ~yields[m].item.some => ~yields[n].item.some

\* the iterator yielded an Intermediate item, then the item of a Final
\* step, and nothing at the advance after it
C6_Witness ==
    /\ Len(yields) >= 3
    /\ yields[1].item.some
    /\ apply_once_unsafe(scheme, yields[1].word).tag = "Intermediate"
    /\ yields[2].item.some
    /\ apply_once_unsafe(scheme, yields[2].word).tag = "Final"
    /\ ~yields[3].item.some

(***************************************************************************)
(* C7: apply_once(word) and get_application_iterator(word) either both     *)
(* fail, with the same input validation error, or both succeed, and then   *)
(* the first item the iterator yields has the word and the applied formula *)
(* definition of the result of apply_once(word).                           *)
(***************************************************************************)
C7_ApplyOnceIsFirstIteratorItem ==
    (singles /= <<>> /\ iterator /= <<>>) =>
        /\ singles[1].word = word
        /\ singles[1].result.ok = iterator[1].ok
        /\ ~iterator[1].ok => singles[1].result.value = iterator[1].value
        /\ iterator[1].ok => (panicked => yields /= <<>>)
        /\ (iterator[1].ok /\ yields /= <<>>) =>
               /\ yields[1].item.some
               /\ yields[1].item.value.word
                      = singles[1].result.value.data.word
               /\ yields[1].item.value.applied_formula_definition
                      = singles[1].result.value.data.applied_formula_definition

\* apply_once and the first advance of the iterator both applied a formula
\* that changed the word
C7_Witness ==
    /\ singles /= <<>>
    /\ singles[1].result.ok
    /\ iterator /= <<>>
    /\ iterator[1].ok
    /\ yields /= <<>>
    /\ yields[1].item.some
    /\ yields[1].item.value.applied_formula_definition.some
    /\ yields[1].item.value.word /= word

(***************************************************************************)
(* C8: apply with a steps_limit of 0 fails with ZeroStepsLimit for every   *)
(* scheme and every word, words with unknown or extension characters       *)
(* included: the limit is checked before the word is.                      *)
(***************************************************************************)
C8_ZeroLimitRejectedFirst ==
    (full /= <<>> /\ full[1].steps_limit = 0) =>
        /\ ~full[1].result.ok
        /\ full[1].result.value = [kind |-> "ZeroStepsLimit"]

\* apply was called with limit 0 on a word with an unknown character
C8_Witness ==
    /\ full /= <<>>
    /\ full[1].steps_limit = 0
    /\ UnknownCharactersOf(word) /= <<>>

(***************************************************************************)
(* C9: when the word has a character outside the extended alphabet,        *)
(* apply_once and get_application_iterator fail with                       *)
(* UnknownCharactersEncountered and apply (limit >= 1) fails with the      *)
(* input validation error that wraps it; the error names all the           *)
(* characters of the word outside the extended alphabet and no extension   *)
(* character, also when the word has extension characters; no step is      *)
(* made.                                                                   *)
(***************************************************************************)
C9_UnknownCharactersReported ==
    UnknownCharactersOf(word) /= <<>> =>
        LET error == [kind |-> "UnknownCharactersEncountered",
                      characters |-> UnknownCharactersOf(word)]
        IN  /\ singles /= <<>> =>
                   /\ ~singles[1].result.ok
                   /\ singles[1].result.value = error
                   /\ Len(singles) = 1
            /\ (full /= <<>> /\ full[1].steps_limit >= 1) =>
                   /\ ~full[1].result.ok
                   /\ full[1].result.value
                          = [kind |-> "InputValidationError",
                             source |-> error]
            /\ iterator /= <<>> =>
                   /\ ~iterator[1].ok
                   /\ iterator[1].value = error
                   /\ yields = <<>>
                   /\ ~panicked

\* the three entry points were called on a word with an unknown and an
\* extension character
C9_Witness ==
    /\ UnknownCharactersOf(word) /= <<>>
    /\ ExtensionCharactersOf(word) /= <<>>
    /\ singles /= <<>>
    /\ iterator /= <<>>
    /\ full /= <<>>
    /\ full[1].steps_limit >= 1

(***************************************************************************)
(* C10: when every character of the word is in the extended alphabet and   *)
(* some are extension characters, apply_once and get_application_iterator  *)
(* fail with ExtensionCharactersEncountered and apply (limit >= 1) fails   *)
(* with the input validation error that wraps it, naming the extension     *)
(* characters of the word; a word is accepted only if all its characters   *)
(* are in the main set.                                                    *)
(***************************************************************************)
C10_ExtensionCharactersReported ==
    /\ (UnknownCharactersOf(word) = <<>>
            /\ ExtensionCharactersOf(word) /= <<>>) =>
           LET error == [kind |-> "ExtensionCharactersEncountered",
                         characters |-> ExtensionCharactersOf(word)]
           IN  /\ singles /= <<>> =>
                      /\ ~singles[1].result.ok
                      /\ singles[1].result.value = error
                      /\ Len(singles) = 1
               /\ (full /= <<>> /\ full[1].steps_limit >= 1) =>
                      /\ ~full[1].result.ok
                      /\ full[1].result.value
                             = [kind |-> "InputValidationError",
                                source |-> error]
               /\ iterator /= <<>> =>
                      /\ ~iterator[1].ok
                      /\ iterator[1].value = error
                      /\ yields = <<>>
                      /\ ~panicked
    /\ (singles /= <<>> /\ singles[1].result.ok) => IsMainWord(word)
    /\ (iterator /= <<>> /\ iterator[1].ok) => IsMainWord(word)
    /\ ( /\ full /= <<>>
         /\ \/ full[1].result.ok
            \/ full[1].result.value.kind = "HitTheStepsLimit" )
           => IsMainWord(word)

\* the three entry points were called on a word of main and extension
\* characters
C10_Witness ==
    /\ UnknownCharactersOf(word) = <<>>
    /\ ExtensionCharactersOf(word) /= <<>>
    /\ \E n \in 1..Len(word) : word[n] \in scheme.properties.alphabet.main
    /\ singles /= <<>>
    /\ iterator /= <<>>
    /\ full /= <<>>
    /\ full[1].steps_limit >= 1


(***************************************************************************)
(* C11: a build from no definition lines succeeds with a scheme of zero    *)
(* formulas; apply on that scheme, for a valid word and a limit of at      *)
(* least 1, returns the word unchanged with steps_done = 1, and apply_once *)
(* returns Final with the word unchanged and no applied formula.           *)
(***************************************************************************)
C11_EmptySchemeHaltsAtOnce ==
    build[1].formula_definitions = <<>> =>
        /\ build[1].result.ok
        /\ build[1].result.value.store = <<>>
        /\ build[1].result.value.substitution_formulas = <<>>
        /\ (full /= <<>> /\ full[1].steps_limit >= 1 /\ IsMainWord(word)) =>
               /\ full[1].result.ok
               /\ full[1].result.value = [word |-> word, steps_done |-> 1]
        /\ \A i \in 1..Len(singles) :
               IsMainWord(singles[i].word) =>
                   /\ singles[i].result.ok
                   /\ singles[i].result.value =
                          SingleApplicationResult("Final", singles[i].word, None)

C11_Witness ==
    /\ build[1].formula_definitions = <<>>
    /\ scheme.substitution_formulas = <<>>
    /\ word /= <<>>
    /\ IsMainWord(word)
    /\ full /= <<>>
    /\ full[1].steps_limit = MaxLimit
    /\ full[1].result.ok
    /\ singles /= <<>>
    /\ singles[1].result.ok


(***************************************************************************)
(* C12: a build validates the properties before any definition line and    *)
(* reports the first violation in the order: delimiter equal to the final  *)
(* marker, delimiter in the alphabet, final marker in the alphabet.  Only  *)
(* the earliest violation is reported, whatever the definition lines are;  *)
(* with valid properties none of the three errors is returned.             *)
(***************************************************************************)
\* the error kinds of the properties
PropertyErrors ==
    {"DelimiterAndFinalMarkerAreTheSame", "DelimiterBelongsToTheAlphabet",
     "FinalMarkerBelongsToTheAlphabet"}

\* the violations of the properties, in the order of the claim
SameCharacters(properties) == properties.delimiter = properties.final_marker
DelimiterInAlphabet(properties) ==
    properties.delimiter \in properties.alphabet.main
FinalMarkerInAlphabet(properties) ==
    properties.final_marker \in properties.alphabet.main
ValidProperties(properties) ==
    /\ ~SameCharacters(properties)
    /\ ~DelimiterInAlphabet(properties)
    /\ ~FinalMarkerInAlphabet(properties)

\* the build returned the error kind about character
PropertyError(call, kind, character) ==
    /\ ~call.result.ok
    /\ call.result.value = [kind |-> kind, character |-> character]

C12_PropertiesValidatedFirstInOrder ==
    build /= <<>> =>
        LET call == build[1]
            properties == build[1].properties
        IN  /\ SameCharacters(properties) =>
                   PropertyError(call, "DelimiterAndFinalMarkerAreTheSame",
                                 properties.delimiter)
            /\ (~SameCharacters(properties)
                    /\ DelimiterInAlphabet(properties)) =>
                   PropertyError(call, "DelimiterBelongsToTheAlphabet",
                                 properties.delimiter)
            /\ (~SameCharacters(properties)
                    /\ ~DelimiterInAlphabet(properties)
                    /\ FinalMarkerInAlphabet(properties)) =>
                   PropertyError(call, "FinalMarkerBelongsToTheAlphabet",
                                 properties.final_marker)
            /\ ValidProperties(properties) =>
                   (call.result.ok \/ call.result.value.kind \notin PropertyErrors)

\* all three violations hold at once and the only line has an unknown
\* character and no delimiter
C12_Witness ==
    /\ build /= <<>>
    /\ SameCharacters(build[1].properties)
    /\ DelimiterInAlphabet(build[1].properties)
    /\ FinalMarkerInAlphabet(build[1].properties)
    /\ build[1].formula_definitions = <<<<UnknownCharacter>>>>
    /\ PropertyError(build[1], "DelimiterAndFinalMarkerAreTheSame",
                     build[1].properties.delimiter)


(***************************************************************************)
(* C13: with valid properties, the lines are taken in the order given;     *)
(* each line is first checked for characters that are neither in the       *)
(* extended alphabet nor the delimiter nor the final marker                *)
(* (UnknownCharactersEncountered with the unknown characters of that       *)
(* line) and only then parsed (FormulaCreationError wrapping the error of  *)
(* the formula).  The build returns the error of the first failing line,   *)
(* and a scheme only when no line fails.                                   *)
(***************************************************************************)
\* the characters of line the properties do not know, in order
UnknownIn(properties, line) ==
    LET Unknown(character) ==
            /\ character \notin properties.alphabet.main
            /\ character \notin properties.alphabet.extension
            /\ character /= properties.delimiter
            /\ character /= properties.final_marker
    IN  SelectSeq(line, Unknown)

\* the formula made of line alone
FormulaOf(properties, line) ==
    SubstitutionFormula_new(properties, line, [start |-> 0, end |-> Len(line)])

\* the lines of a build that fail one of the two checks
FailingLines(call) ==
    {i \in 1..Len(call.formula_definitions) :
        \/ UnknownIn(call.properties, call.formula_definitions[i]) /= <<>>
        \/ ~FormulaOf(call.properties, call.formula_definitions[i]).ok}

FirstFailingLine(call) ==
    CHOOSE i \in FailingLines(call) : \A j \in FailingLines(call) : i <= j

\* the error the claim expects for a failing line
LineError(properties, line) ==
    IF UnknownIn(properties, line) /= <<>>
    THEN [kind |-> "UnknownCharactersEncountered",
          characters |-> UnknownIn(properties, line)]
    ELSE [kind |-> "FormulaCreationError",
          source |-> FormulaOf(properties, line).value]

C13_FirstFailingLineReported ==
    (build /= <<>> /\ ValidProperties(build[1].properties)) =>
        IF FailingLines(build[1]) = {}
        THEN build[1].result.ok
        ELSE /\ ~build[1].result.ok
             /\ build[1].result.value =
                    LineError(build[1].properties,
                              build[1].formula_definitions[
                                  FirstFailingLine(build[1])])

\* the first line has no delimiter and no unknown character, the second
\* line has an unknown character: the error is the one of the first line
C13_Witness ==
    /\ build /= <<>>
    /\ ValidProperties(build[1].properties)
    /\ Len(build[1].formula_definitions) = 2
    /\ FailingLines(build[1]) = {1, 2}
    /\ UnknownIn(build[1].properties, build[1].formula_definitions[1]) = <<>>
    /\ UnknownIn(build[1].properties, build[1].formula_definitions[2]) /= <<>>
    /\ ~build[1].result.ok
    /\ build[1].result.value.kind = "FormulaCreationError"


(***************************************************************************)
(* C14: a line without a delimiter is rejected with NoDelimiterFound and a *)
(* line with n > 1 delimiters with MultipleDelimitersFound carrying n; a   *)
(* delimiter followed by the final marker counts as one, and the final     *)
(* markers of the line play no part in this check.                         *)
(***************************************************************************)
\* the number of delimiter characters in line
DelimitersIn(properties, line) ==
    Cardinality({i \in 1..Len(line) : line[i] = properties.delimiter})

\* the build failed on line with the formula error kind carrying count
FormulaError(call, line, kind, count) ==
    /\ ~call.result.ok
    /\ call.result.value.kind = "FormulaCreationError"
    /\ call.result.value.source =
           [kind |-> kind, definition |-> line, count |-> count]

\* the first failing line of a build, when it has no unknown character
ParsedFailingLine(call) ==
    call.formula_definitions[FirstFailingLine(call)]

C14_DelimiterCounted ==
    (build /= <<>> /\ ValidProperties(build[1].properties)) =>
        /\ build[1].result.ok =>
               \A i \in 1..Len(build[1].formula_definitions) :
                   DelimitersIn(build[1].properties,
                                build[1].formula_definitions[i]) = 1
        /\ (/\ FailingLines(build[1]) /= {}
            /\ UnknownIn(build[1].properties, ParsedFailingLine(build[1])) = <<>>) =>
               LET line == ParsedFailingLine(build[1])
                   n == DelimitersIn(build[1].properties, line)
               IN  /\ n = 0 =>
                          FormulaError(build[1], line, "NoDelimiterFound", 0)
                   /\ n > 1 =>
                          FormulaError(build[1], line,
                                       "MultipleDelimitersFound", n)
                   /\ n = 1 =>
                          build[1].result.value.source.kind \notin
                              {"NoDelimiterFound", "MultipleDelimitersFound"}

\* a line with the final marker on the left and two delimiters
C14_Witness ==
    /\ build /= <<>>
    /\ ValidProperties(build[1].properties)
    /\ Len(build[1].formula_definitions) = 1
    /\ LET line == build[1].formula_definitions[1]
           properties == build[1].properties
       IN  /\ Len(line) = 3
           /\ line[1] = properties.final_marker
           /\ line[2] = properties.delimiter
           /\ line[3] = properties.delimiter
           /\ FormulaError(build[1], line, "MultipleDelimitersFound", 2)


(***************************************************************************)
(* C15: the formula made of a line with one delimiter is final exactly     *)
(* when the final marker immediately follows the delimiter; its left text  *)
(* is everything before the delimiter and its right text everything after  *)
(* the delimiter, or after the delimiter and the final marker when it is   *)
(* final.  Either text may be empty.                                       *)
(***************************************************************************)
\* the position of the delimiter in a line that has one
DelimiterAt(properties, line) ==
    CHOOSE i \in 1..Len(line) : line[i] = properties.delimiter

\* the final marker immediately follows the delimiter
MarkedFinal(properties, line) ==
    /\ DelimiterAt(properties, line) < Len(line)
    /\ line[DelimiterAt(properties, line) + 1] = properties.final_marker

\* the texts of the line on the two sides of the delimiter
LeftText(properties, line) ==
    SubSeq(line, 1, DelimiterAt(properties, line) - 1)
RightText(properties, line) ==
    SubSeq(line,
           DelimiterAt(properties, line)
               + (IF MarkedFinal(properties, line) THEN 2 ELSE 1),
           Len(line))

\* the formulas of the scheme a build returned, and its store
BuiltFormulas(call) == call.result.value.substitution_formulas
BuiltStore(call) == call.result.value.store

C15_FinalityAndSidesOfALine ==
    (build /= <<>> /\ build[1].result.ok) =>
        /\ Len(BuiltFormulas(build[1])) = Len(build[1].formula_definitions)
        /\ \A i \in 1..Len(build[1].formula_definitions) :
               LET line == build[1].formula_definitions[i]
                   formula == BuiltFormulas(build[1])[i]
               IN  /\ formula.is_final = MarkedFinal(build[1].properties, line)
                   /\ get_left(formula.view, BuiltStore(build[1]))
                          = LeftText(build[1].properties, line)
                   /\ get_right(formula.view, BuiltStore(build[1]))
                          = RightText(build[1].properties, line)

\* a final formula with a left text of one character and an empty right
\* text
C15_Witness ==
    /\ build /= <<>>
    /\ build[1].result.ok
    /\ Len(build[1].formula_definitions) = 1
    /\ LET line == build[1].formula_definitions[1]
           formula == BuiltFormulas(build[1])[1]
       IN  /\ Len(line) = 3
           /\ formula.is_final
           /\ get_left(formula.view, BuiltStore(build[1])) = <<line[1]>>
           /\ get_right(formula.view, BuiltStore(build[1])) = <<>>


(***************************************************************************)
(* C16: a line with one delimiter is rejected with FinalMarkerOnTheLeft    *)
(* when the final marker occurs before the delimiter, and otherwise with   *)
(* FinalMarkerOnTheRight when it occurs in the right text (after the       *)
(* delimiter, or after the delimiter and its final marker).  In a built    *)
(* scheme the final marker of a line occurs only right after the           *)
(* delimiter.                                                              *)
(***************************************************************************)
\* the final marker occurs in text
Marked(properties, text) ==
    \E i \in 1..Len(text) : text[i] = properties.final_marker

DefinitionLines == build[1].formula_definitions

\* the lines whose left text occurs in w, and the first of them
LinesMatching(w) ==
    {i \in 1..Len(DefinitionLines) :
        Occurs(LeftText(scheme.properties, DefinitionLines[i]), w)}
FirstLineMatching(w) ==
    CHOOSE i \in LinesMatching(w) : \A j \in LinesMatching(w) : i <= j

C17_FormulasReadTheirOwnLine ==
    /\ Len(Formulas) = Len(DefinitionLines)
    /\ \A i \in 1..Len(DefinitionLines) :
           /\ DefinitionOf(i) = DefinitionLines[i]
           /\ LeftOf(i) = LeftText(scheme.properties, DefinitionLines[i])
           /\ RightOf(i) = RightText(scheme.properties, DefinitionLines[i])
    /\ \A step \in Steps :
           LinesMatching(step.word) /= {} =>
               LET line == DefinitionLines[FirstLineMatching(step.word)]
                   left == LeftText(scheme.properties, line)
                   right == RightText(scheme.properties, line)
                   at == Leftmost(left, step.word)
               IN  /\ step.data.applied_formula_definition = Some(line)
                   /\ step.data.word
                          = SubSeq(step.word, 1, at) \o right
                            \o SubSeq(step.word, at + Len(left) + 1,
                                      Len(step.word))

\* a step applied the second of two lines, which has a left text and a right
\* text, and reported it
C17_Witness ==
    \E step \in Steps :
        /\ Len(DefinitionLines) = 2
        /\ LinesMatching(step.word) = {2}
        /\ LeftText(scheme.properties, DefinitionLines[2]) /= <<>>
        /\ step.data.applied_formula_definition = Some(DefinitionLines[2])
        /\ step.data.word /= step.word


(***************************************************************************)
(* C18: an alphabet created from a non-empty string without repeated       *)
(* characters, or from a non-empty set, is created; contains holds exactly *)
(* for the characters given, and contains_extended equals contains for     *)
(* every character, the extension set being empty.                         *)
(***************************************************************************)
\* the alphabet creation made, before any extension
Created == creation /= <<>> /\ creation[1].extended = <<>>

\* the creation was made from a string
FromString == creation[1].from \in {"from_str", "try_from_str"}

\* the characters given to the creation
GivenCharacters ==
    IF FromString
    THEN {creation[1].source[i] : i \in 1..Len(creation[1].source)}
    ELSE creation[1].source

\* a character of the string given repeats an earlier one
HasRepeats ==
    /\ FromString
    /\ \E i, j \in 1..Len(creation[1].source) :
           i < j /\ creation[1].source[i] = creation[1].source[j]

C18_CreatedAlphabetContainsItsCharacters ==
    (Created /\ GivenCharacters /= {} /\ ~HasRepeats) =>
        /\ creation[1].result.ok
        /\ \A character \in ExtensionCharacters :
               /\ contains(creation[1].result.value, character)
                      <=> character \in GivenCharacters
               /\ contains_extended(creation[1].result.value, character)
                      <=> contains(creation[1].result.value, character)

\* an alphabet parsed from a string of two characters
C18_Witness ==
    /\ Created
    /\ creation[1].from = "from_str"
    /\ Len(creation[1].source) = 2
    /\ ~HasRepeats
    /\ creation[1].result.ok
    /\ contains(creation[1].result.value, creation[1].source[2])

(***************************************************************************)
(* C19: creating an alphabet from no characters fails with NoCharacters,   *)
(* from an empty set and from an empty string alike.                       *)
(***************************************************************************)
C19_EmptyAlphabetRejected ==
    (Created /\ GivenCharacters = {}) =>
        /\ ~creation[1].result.ok
        /\ creation[1].result.value.kind = "NoCharacters"

(***************************************************************************)
(* C20: parsing a string in which a character repeats fails with           *)
(* DuplicatedCharacterEncountered, whose duplicates are, in order of       *)
(* appearance, all the occurrences of a character that appeared earlier in *)
(* the string, one entry an occurrence, together with the string itself.   *)
(***************************************************************************)
RECURSIVE RepeatedOccurrences(_, _)
\* the characters among the first n of characters that repeat an earlier one
RepeatedOccurrences(characters, n) ==
    IF n = 0 THEN <<>>
    ELSE RepeatedOccurrences(characters, n - 1)
         \o (IF \E j \in 1..(n - 1) : characters[j] = characters[n]
             THEN <<characters[n]>>
             ELSE <<>>)

C20_AllDuplicatesReported ==
    (Created /\ HasRepeats) =>
        /\ ~creation[1].result.ok
        /\ creation[1].result.value =
               [kind |-> "DuplicatedCharacterEncountered",
                duplicates |-> RepeatedOccurrences(creation[1].source,
                                                   Len(creation[1].source)),
                alphabet_definition |-> creation[1].source]

\* a string in which one character appears three times: two duplicates
C20_Witness ==
    /\ Created
    /\ HasRepeats
    /\ Len(creation[1].source) = 3
    /\ creation[1].source[1] = creation[1].source[2]
    /\ creation[1].source[2] = creation[1].source[3]
    /\ ~creation[1].result.ok
    /\ Len(creation[1].result.value.duplicates) = 2

\* ---------------------------------------------------------------------
\* C21

\* the characters the alphabet was extended with before the last extend
ExtendedBefore ==
    {creation[1].extended[i] : i \in 1..(Len(creation[1].extended) - 1)}

\* the character of the last extend call
LastExtended == creation[1].extended[Len(creation[1].extended)]

\* C21: extend(c) fails with ExtendedWithADuplicate exactly when c is in
\* the main set or was added to the extension set by an earlier extend;
\* otherwise the result has c added to the extension set only: contains
\* answers as it did for the created alphabet for every character,
\* contains_extended(c) is true, the main set is the one given at
\* construction and the two sets are disjoint.
C21_ExtendRejectsDuplicatesOnly ==
    (creation /= <<>> /\ creation[1].extended /= <<>>) =>
        IF LastExtended \in GivenCharacters \cup ExtendedBefore
        THEN /\ ~creation[1].result.ok
             /\ creation[1].result.value.kind = "ExtendedWithADuplicate"
        ELSE /\ creation[1].result.ok
             /\ creation[1].result.value.main = GivenCharacters
             /\ creation[1].result.value.extension =
                    ExtendedBefore \cup {LastExtended}
             /\ creation[1].result.value.main
                    \cap creation[1].result.value.extension = {}
             /\ contains_extended(creation[1].result.value, LastExtended)
             /\ \A character \in ExtensionCharacters :
                    contains(creation[1].result.value, character)
                        = (character \in GivenCharacters)

\* an extension character is added and the same character is then refused
C21_Witness ==
    /\ creation /= <<>>
    /\ Len(creation[1].extended) = 3
    /\ creation[1].extended[1] = "c"
    /\ creation[1].extended[2] = "d"
    /\ creation[1].extended[3] = "c"
    /\ ~creation[1].result.ok

\* ---------------------------------------------------------------------
\* C22

\* the delimiter or the final marker is a character of the extension set
MarkerInExtension(properties) ==
    \/ properties.delimiter \in properties.alphabet.extension
    \/ properties.final_marker \in properties.alphabet.extension

\* C22: a delimiter or a final marker is rejected for membership in the
\* main set only: when one of them belongs to the extension set, the build
\* returns one of the three property errors exactly when the two are the
\* same character or one of them is in the main set; otherwise the
\* properties pass and lines without a failure build a scheme that keeps
\* these properties.
C22_ExtensionCharacterMayBeAMarker ==
    (build /= <<>> /\ MarkerInExtension(build[1].properties)) =>
        /\ (~build[1].result.ok
                /\ build[1].result.value.kind \in PropertyErrors)
               <=> ~ValidProperties(build[1].properties)
        /\ (ValidProperties(build[1].properties)
                /\ FailingLines(build[1]) = {}) =>
               /\ build[1].result.ok
               /\ build[1].result.value.properties = build[1].properties

\* the delimiter is the extension character e and the line ae. is built
\* into a final formula
C22_Witness ==
    /\ build /= <<>>
    /\ build[1].properties.delimiter = "e"
    /\ build[1].properties.delimiter \in build[1].properties.alphabet.extension
    /\ build[1].formula_definitions = << <<"a", "e", ".">> >>
    /\ build[1].result.ok
    /\ build[1].result.value.substitution_formulas[1].is_final

\* ---------------------------------------------------------------------
\* C23

RECURSIVE AloneAfter(_, _, _)
\* the iterator a caller alone would hold after a number of advances from
\* the iterator it
AloneAfter(self, it, advances) ==
    LET Again(before) ==
            IF before.panic THEN before
            ELSE ApplicationIterator_next(self, before.iterator)
    IN  IF advances = 0 THEN Advanced(it, None, FALSE)
        ELSE Again(AloneAfter(self, it, advances - 1))

\* the result the call of the record gives on the scheme as it was built,
\* with no other caller around
AloneResult(call) ==
    CASE call.call = "apply" ->
             apply(build[1].result.value, call.word, call.steps_limit)
      [] call.call = "apply_once" ->
             apply_once(build[1].result.value, call.word)
      [] call.call = "get_application_iterator" ->
             get_application_iterator(build[1].result.value, call.word)
      [] call.call = "next" ->
             LET Outcome(advanced) ==
                     [item |-> advanced.item, panic |-> advanced.panic]
             IN  Outcome(AloneAfter(build[1].result.value,
                                    ApplicationIterator_new(call.word),
                                    call.steps_limit))

\* the iterator of caller is where that caller's own advances put it
OwnPosition(caller) ==
    LET Same(alone) ==
            /\ callers[caller].iterator[1].value = alone.iterator
            /\ callers[caller].panicked = alone.panic
    IN  Same(AloneAfter(build[1].result.value,
                        ApplicationIterator_new(callers[caller].start),
                        callers[caller].advances))

AtMost(a, b) == a = b \/ u32_lt(a, b)

\* the counted run is over the scheme that never halts
RunsForever ==
    /\ build[1].formula_definitions = NeverHalting
    /\ word = <<"a">>

\* the counted run returned HitTheStepsLimit with the given number
HitTheStepsLimit(steps) ==
    /\ counting[1].at = "returned"
    /\ ~counting[1].result.ok
    /\ counting[1].result.value = [kind |-> "HitTheStepsLimit", steps |-> steps]

\* C24 as stated: in a full application, whatever the limit up to u32::MAX,
\* the counter is within 0..steps_limit, no addition on it overflows, and
\* a run with the limit u32::MAX over a scheme that never halts ends with
\* HitTheStepsLimit.
C24_CounterWithinTheLimit ==
    counting /= <<>> =>
        /\ AtMost(counting[1].steps_done, counting[1].steps_limit)
        /\ counting[1].at /= "panicked"
        /\ ~counting[1].wrapped
        /\ (RunsForever /\ counting[1].steps_limit = u32_MAX
                /\ counting[1].at = "returned") => HitTheStepsLimit(u32_MAX)

\* C24, amended: no addition on the counter overflows; steps_done of apply
\* is within 0..steps_limit; the step of a Limitter is within 0..limit
\* while the application runs and in every Ok, and is limit + 1 only after
\* the tick that returned HitTheStepsLimit(limit) for a limit below
\* u32::MAX; a run with the limit u32::MAX over a scheme that never halts
\* ends with HitTheStepsLimit(u32::MAX).
C24_CounterNeverWraps ==
    counting /= <<>> =>
        /\ counting[1].at /= "panicked"
        /\ ~counting[1].wrapped
        /\ counting[1].of = "apply" =>
               AtMost(counting[1].steps_done, counting[1].steps_limit)
        /\ counting[1].of = "Limitter" =>
               \/ AtMost(counting[1].steps_done, counting[1].steps_limit)
               \/ /\ counting[1].steps_limit /= u32_MAX
                  /\ counting[1].steps_done =
                         u32_wrapping_add_1(counting[1].steps_limit)
                  /\ HitTheStepsLimit(counting[1].steps_limit)
        /\ (RunsForever /\ counting[1].steps_limit = u32_MAX
                /\ counting[1].at = "returned") => HitTheStepsLimit(u32_MAX)

\* apply, built with overflow checks, has counted to u32::MAX over the
\* scheme that never halts and returned HitTheStepsLimit(u32::MAX)
C24_Witness ==
    /\ counting /= <<>>
    /\ RunsForever
    /\ counting[1].of = "apply"
    /\ counting[1].overflow_checks
    /\ counting[1].steps_limit = u32_MAX
    /\ counting[1].steps_done = u32_MAX
    /\ HitTheStepsLimit(u32_MAX)

\* ---------------------------------------------------------------------
\* C25

\* the lines of the document given to AlgorithmScheme::new
DocumentLines == lines(document[1].definition)

\* the empty lines among the given lines
EmptyLines(formula_definitions) ==
    {i \in 1..Len(formula_definitions) : formula_definitions[i] = <<>>}

\* the lines of the document that are not empty and make no formula
BadDocumentLines ==
    {i \in 1..Len(DocumentLines) :
        /\ DocumentLines[i] /= <<>>
        /\ ~formulas_SubstitutionFormula_new(
                document[1].configuration, DocumentLines[i],
                [start |-> 0, end |-> Len(DocumentLines[i])]).ok}

\* line i comes before every line of the set
BeforeAll(i, others) == \A j \in others : i < j

\* C25 as stated: a build from lines of which one is empty returns no
\* scheme but EncounteredEmptyLine from the whole-document constructor and
\* a formula creation error from the builder.
C25_EmptyLineErrorReported ==
    /\ (build /= <<>> /\ EmptyLines(build[1].formula_definitions) /= {}) =>
           /\ ~build[1].result.ok
           /\ build[1].result.value.kind = "FormulaCreationError"
    /\ (document /= <<>> /\ EmptyLines(DocumentLines) /= {}) =>
           /\ ~document[1].result.ok
           /\ document[1].result.value.kind = "EncounteredEmptyLine"

\* C25, amended: a build from lines of which one is empty returns no
\* scheme.  When an empty line is the first line that fails, the error is
\* EncounteredEmptyLine from the whole-document constructor and, the
\* properties being valid, FormulaCreationError with NoDelimiterFound from
\* the builder; otherwise it is the error of the properties or of the
\* earlier line.
C25_EmptyLineNeverAccepted ==
    /\ (build /= <<>> /\ EmptyLines(build[1].formula_definitions) /= {}) =>
           /\ ~build[1].result.ok
           /\ (ValidProperties(build[1].properties)
                   /\ FirstFailingLine(build[1])
                          \in EmptyLines(build[1].formula_definitions)) <=>
                  /\ build[1].result.value.kind = "FormulaCreationError"
                  /\ build[1].result.value.source.kind = "NoDelimiterFound"
                  /\ build[1].result.value.source.definition = <<>>
    /\ (document /= <<>> /\ EmptyLines(DocumentLines) /= {}) =>
           /\ ~document[1].result.ok
           /\ (\E i \in EmptyLines(DocumentLines) :
                   BeforeAll(i, BadDocumentLines)) <=>
                  document[1].result.value.kind = "EncounteredEmptyLine"

\* the document a> followed by an empty line: the first line makes a
\* formula and the second is refused
C25_Witness ==
    /\ document /= <<>>
    /\ document[1].definition = <<"a", ">", "\n", "\n">>
    /\ DocumentLines = << <<"a", ">">>, <<>> >>
    /\ ~document[1].result.ok
    /\ document[1].result.value.kind = "EncounteredEmptyLine"

\* ---------------------------------------------------------------------
\* C27

\* w has only characters of the extended alphabet of the scheme, and
\* neither its delimiter nor its final marker
Clean(w) ==
    \A n \in 1..Len(w) :
        /\ contains_extended(scheme.properties.alphabet, w[n])
        /\ w[n] /= scheme.properties.delimiter
        /\ w[n] /= scheme.properties.final_marker

\* C27: the left and the right text of every formula of a built scheme
\* have only characters of the extended alphabet, without the delimiter
\* and the final marker; and so has every word that application steps
\* make from a validated word: the word of every successful apply_once,
\* of every item an iterator yields and of every Ok of apply.
C27_WordsStayInTheExtendedAlphabet ==
    /\ \A i \in 1..Len(Formulas) : Clean(LeftOf(i)) /\ Clean(RightOf(i))
    /\ \A step \in Steps : Clean(step.data.word)
    /\ (full /= <<>> /\ full[1].result.ok) => Clean(full[1].result.value.word)

\* apply has made more than one step and its word has got an extension
\* character from a right text
C27_Witness ==
    /\ full /= <<>>
    /\ full[1].result.ok
    /\ full[1].result.value.steps_done > 1
    /\ \E n \in 1..Len(full[1].result.value.word) :
           full[1].result.value.word[n] \in scheme.properties.alphabet.extension
    /\ \E step \in Steps : step.data.word /= step.word

\* ---------------------------------------------------------------------
\* C28

\* the formulas whose left text is empty, and the first of them
EmptyLeft == {i \in 1..Len(Formulas) : LeftOf(i) = <<>>}

FirstEmptyLeft == CHOOSE i \in EmptyLeft : \A j \in EmptyLeft : i <= j

\* the definitions of the formulas up to the first one with an empty left
\* text, and of the final ones among them
UpToEmptyLeft == {DefinitionOf(j) : j \in 1..FirstEmptyLeft}

FinalUpToEmptyLeft ==
    {DefinitionOf(j) : j \in {i \in 1..FirstEmptyLeft : Formulas[i].is_final}}

\* C28: in a scheme with a formula whose left text is empty, every step
\* applies a formula, on the empty word too, and never one listed after
\* the first such formula; when no earlier left text occurs in the word,
\* the step applies that formula and its word is the right text followed
\* by the whole input word; and a step is Final, or apply returns Ok, only
\* through a final formula listed up to it, which is one listed before it
\* when it is not final itself.
C28_EmptyLeftAlwaysMatches ==
    EmptyLeft /= {} =>
        /\ \A step \in Steps :
               /\ step.data.applied_formula_definition.some
               /\ step.data.applied_formula_definition.value \in UpToEmptyLeft
               /\ (\A j \in 1..(FirstEmptyLeft - 1) :
                       ~Occurs(LeftOf(j), step.word)) =>
                      /\ step.data.applied_formula_definition.value
                             = DefinitionOf(FirstEmptyLeft)
                      /\ step.data.word
                             = RightOf(FirstEmptyLeft) \o step.word
        /\ \A n \in 1..Len(singles) :
               (singles[n].result.ok
                    /\ singles[n].result.value.tag = "Final") =>
                   singles[n].result.value.data.applied_formula_definition.value
                       \in FinalUpToEmptyLeft
        /\ (full /= <<>> /\ full[1].result.ok) => FinalUpToEmptyLeft /= {}

\* in the scheme of >e and a>, a step on the word a has put e before it
\* and left the second formula, whose left text occurs, unapplied
C28_Witness ==
    /\ build[1].formula_definitions = << <<">", "e">>, <<"a", ">">> >>
    /\ \E step \in Steps :
           /\ step.word = <<"a">>
           /\ step.data.word = <<"e", "a">>
           /\ step.data.applied_formula_definition = Some(<<">", "e">>)

(***************************************************************************)
(* The handler of the user's input                                         *)
(***************************************************************************)
Calls == calling.calls

\* the calling thread is inside a call of should_continue
Called == calling.at # "returned"

\* the calling thread cannot go on before the user presses ENTER: it is in
\* join, or in recv on an empty channel, the thread is in read_line and no
\* line is typed
AwaitsInput ==
    /\ terminal.lines = 0
    /\ \/ /\ calling.at = "wait_for_previous_thread"
          /\ input_handler.thread_handle.some
          /\ threads[input_handler.thread_handle.value] = "reading"
       \/ /\ calling.at = "recv"
          /\ channel = <<>>
          /\ threads[input_handler.thread_handle.value] = "reading"

\* the thread that call spawned has read a line and sent true
ContinueSignalled(call) ==
    /\ call.spawned.some
    /\ threads[call.spawned.value] \in {"sent", "finished"}

\* some call before the k-th returned false
ReturnedFalseBefore(k) ==
    \E j \in 1..(k - 1) : Calls[j].result = Some(FALSE)

HoldsContinue(signals) == \E i \in 1..Len(signals) : signals[i]

\* C26: a call of should_continue returns true only for a continue signal
\* (a line its thread read) and false only for a cancel signal (a Ctrl-C
\* signalled before it returns), and a call that starts after a Ctrl-C was
\* signalled never waits for the user to press ENTER.
C26_CancelledCallNeverAwaitsInput ==
    /\ \A k \in 1..Len(Calls) :
           Calls[k].result.some =>
               IF Calls[k].result.value
               THEN ContinueSignalled(Calls[k])
               ELSE terminal.signals > 0
    /\ (Called /\ InProgress.cancelled) => ~AwaitsInput

\* C29: a cancel signal is never lost and is sticky: a call of
\* should_continue that starts after a Ctrl-C was signalled does not return
\* true, and after a call returned false no later call returns true or
\* spawns a thread for stdin, in every interleaving of the signals, the
\* lines and the calls.
C29_CancelIsSticky ==
    \A k \in 1..Len(Calls) :
        /\ (Calls[k].cancelled /\ Calls[k].result.some) =>
               ~Calls[k].result.value
        /\ ReturnedFalseBefore(k) =>
               /\ ~Calls[k].spawned.some
               /\ Calls[k].result.some => ~Calls[k].result.value

\* a call returned true, a Ctrl-C was signalled after it, and the two calls
\* after it returned false, the last after the thread of the cancelled call
\* read a line
C29_Witness ==
    /\ Len(Calls) = 3
    /\ Calls[1].result = Some(TRUE)
    /\ ~Calls[1].cancelled
    /\ Calls[2].cancelled
    /\ Calls[2].spawned.some
    /\ Calls[2].result = Some(FALSE)
    /\ Calls[3].result = Some(FALSE)
    /\ terminal.typed = 2

\* C30 as stated: at most one thread for stdin exists at any time, a call
\* of should_continue returns true only after the thread it spawned has read
\* a line, and at the start of every call the channel holds no continue
\* signal.
C30_NoContinueSignalLeftOver ==
    /\ Cardinality(Readers) <= 1
    /\ \A k \in 1..Len(Calls) :
           /\ Calls[k].result = Some(TRUE) => ContinueSignalled(Calls[k])
           /\ ~HoldsContinue(Calls[k].left_over)

\* C30: at most one thread for stdin exists at any time, a call of
\* should_continue returns true only after the thread it spawned has read a
\* line, and at the start of every call before which no call returned false
\* the channel holds no continue signal.
C30_NoContinueSignalLeftOverUntilCancelled ==
    /\ Cardinality(Readers) <= 1
    /\ \A k \in 1..Len(Calls) :
           /\ Calls[k].result = Some(TRUE) => ContinueSignalled(Calls[k])
           /\ ~ReturnedFalseBefore(k) => ~HoldsContinue(Calls[k].left_over)

\* a call returned true after its own thread read a line, the next returned
\* false for a Ctrl-C, and the call after it started with the continue
\* signal of the cancelled call's thread in the channel
C30_Witness ==
    /\ Len(Calls) = 3
    /\ Calls[1].result = Some(TRUE)
    /\ Calls[1].spawned = Some(1)
    /\ Calls[1].left_over = <<>>
    /\ Calls[2].result = Some(FALSE)
    /\ Calls[2].spawned = Some(2)
    /\ Calls[2].left_over = <<>>
    /\ Calls[3].left_over = <<TRUE>>
    /\ Calls[3].result = Some(FALSE)
    /\ Readers = {}

=============================================================================
